---- MODULE Spec2Model ----
(***************************************************************************)
(* Document ingestion and processing pipeline of medical-insighter.        *)
(*                                                                         *)
(* The model follows src/api/routes/upload.py: the two upload handlers     *)
(* (upload_document, upload_batch_documents), the background unit of work  *)
(* process_document_background, and the rows of src/api/routes/reports.py  *)
(* (MedicalReport, ExtractedEntity) they read and write through a          *)
(* SQLAlchemy session.                                                     *)
(*                                                                         *)
(* A session is modelled by what it holds between two commits: the         *)
(* attribute values of the loaded MedicalReport object and the set of      *)
(* ExtractedEntity objects added but not yet flushed.  commit() either     *)
(* writes both to the tables, or fails: then the session is rolled back    *)
(* (pending objects are expunged, loaded attributes revert to the          *)
(* committed row) and the exception is raised at the call site.            *)
(*                                                                         *)
(* What a handler writes to the staging root and to the encrypted store is *)
(* kept with the request until its response is sent.  The administrative   *)
(* deletion of a Document is not part of upload.py; it is an action of     *)
(* SpecWithDeletion only.                                                  *)
(*                                                                         *)
(* The blob store (src/storage_service.py) and the cipher boundary         *)
(* (src/encryption_service.py, the field and file functions of             *)
(* src/security.py) are not called by upload.py through their service      *)
(* objects; they have their own specifications, StorageSpec and            *)
(* CipherSpec, over a directory tree and over one value on its way through *)
(* the cipher.                                                             *)
(*                                                                         *)
(* Further specifications, each over its own variable: KeySpec (the two    *)
(* places that build a cipher from ENCRYPTION_KEY), IntegritySpec          *)
(* (save_file followed by verify_file_integrity), SpecWithCleanup (the     *)
(* pipeline with cleanup_temp_files sweeping the staging root), AuthSpec   *)
(* (login, refresh, logout and change_password of                          *)
(* src/api/routes/auth.py), AnalyticsSpec (get_dashboard_stats over two    *)
(* stores) and GateSpec (the file-kind test of the gateway beside          *)
(* validate_file_type).                                                    *)
(***************************************************************************)
EXTENDS Integers, Sequences, FiniteSets, TLC

----------------------------------------------------------------------------
(* Bounds of the model *)

MaxRequests == 2
MaxFiles == 2
MaxDocs == 2
MaxItems == 1
MaxCallers == 2
MaxTicks == 2
MaxUsers == 2
MaxAuthRequests == 4
MaxOwned == 2

----------------------------------------------------------------------------
(* Program constants *)

MAX_UPLOAD_SIZE == 10485760
MAX_BATCH_FILES == 10
SECONDS_PER_HOUR == 3600
FERNET_KEY_LENGTH == 44
KEY_PREFIX_LENGTH == 32
ENCRYPTION_KEY_MIN_LENGTH == 32
RECENT_LIMIT == 5

ALLOWED_EXTENSIONS == {"pdf", "jpg", "jpeg", "png", "tiff"}

PENDING == "pending"
PROCESSING == "processing"
COMPLETED == "completed"
FAILED == "failed"

ReportStatus == {PENDING, PROCESSING, COMPLETED, FAILED}

UserRole == {"admin", "doctor", "nurse", "staff", "viewer"}

\* Mutant of can_upload: every role may upload.
can_upload_any_role(role) == role \in UserRole

can_upload(role) == role \in {"admin", "doctor", "nurse", "staff"}

----------------------------------------------------------------------------
(* Values *)

\* A nullable column: NULL, or one value.
Null == <<>>
Some(v) == <<v>>

\* Requests are numbered in their order of arrival.
ReqIds == 1..MaxRequests
DocIds == 1..MaxDocs

\* Entity kinds the Entity Engine groups its items by.
EntityKinds == {"disease", "medication"}

\* What extract_entities returns: for each kind, its list of items; an item
\* is identified by its position in the list of its kind.  By the engine's
\* contract every item is a record {text, confidence, context}.
EntityOutputs == [EntityKinds -> 0..MaxItems]

\* The items of an engine output in the order the loop of lines 79-93
\* visits them: kind by kind, each kind's list front to back.
EntityKindOrder == <<"disease", "medication">>

RECURSIVE ItemsOf(_, _)
ItemsOf(entities, kinds) ==
    IF kinds = <<>> THEN <<>>
    ELSE LET kind == Head(kinds)
         IN  [i \in 1..entities[kind] |->
                 [entity_type |-> kind, item |-> i, is_dict |-> TRUE]]
             \o ItemsOf(entities, Tail(kinds))

Items(entities) == ItemsOf(entities, EntityKindOrder)

\* Recognition Engine reports (OCRService.process_document): a success
\* carries text, confidence and timing, a failure carries an error text.
Confidences == {94}

OcrResults ==
    [success : {TRUE}, text : {"Patient: ..."}, confidence : Confidences,
     processing_time : {1}, error : {""}]
    \cup
    [success : {FALSE}, text : {""}, confidence : {0},
     processing_time : {1}, error : {"low quality scan"}]

\* What a call returns, or the exception it raises.
Ok(v) == [exc |-> "", value |-> v]
Raise(e) == [exc |-> e, value |-> ""]

\* The key the process loaded (settings.ENCRYPTION_KEY), and another one.
ENCRYPTION_KEY == "k1"
FOREIGN_KEY == "k2"

\* Fernet(key).encrypt(data): a token of a version mark, the data and a
\* signature over the data under the key.  Text and bytes are both strings
\* of the model; every key name has two characters.
VERSION == "gA"

Sign(key, data) == key \o data

Fernet_encrypt(key, data) == VERSION \o data \o Sign(key, data)

\* Mutant of Fernet_decrypt: the signature is returned with the data.
Fernet_decrypt_with_signature(key, token) ==
    LET len == Len(token)
        n == (len - 4) \div 2
    IN  IF len < 4 \/ len % 2 # 0
        THEN Raise("InvalidToken")
        ELSE IF SubSeq(token, 1, 2) # VERSION
        THEN Raise("InvalidToken")
        ELSE IF SubSeq(token, 3 + n, len) # Sign(key, SubSeq(token, 3, 2 + n))
        THEN Raise("InvalidToken")
        ELSE Ok(SubSeq(token, 3, len))

\* Mutant of Fernet_decrypt: the signature is not verified.
Fernet_decrypt_unverified(key, token) ==
    LET len == Len(token)
        n == (len - 4) \div 2
    IN  IF len < 4 \/ len % 2 # 0
        THEN Raise("InvalidToken")
        ELSE Ok(SubSeq(token, 3, 2 + n))

\* Fernet(key).decrypt(token): the data of a token whose version mark and
\* signature are right, InvalidToken for anything else.
Fernet_decrypt(key, token) ==
    LET len == Len(token)
        n == (len - 4) \div 2
    IN  IF len < 4 \/ len % 2 # 0
        THEN Raise("InvalidToken")
        ELSE IF SubSeq(token, 1, 2) # VERSION
        THEN Raise("InvalidToken")
        ELSE IF SubSeq(token, 3 + n, len) # Sign(key, SubSeq(token, 3, 2 + n))
        THEN Raise("InvalidToken")
        ELSE Ok(SubSeq(token, 3, 2 + n))

\* base64.urlsafe_b64encode / urlsafe_b64decode: the encoding is marked;
\* what does not carry the mark does not decode.
B64 == "b:"

urlsafe_b64encode(b) == B64 \o b

urlsafe_b64decode(t) ==
    IF Len(t) >= Len(B64) /\ SubSeq(t, 1, Len(B64)) = B64
    THEN Ok(SubSeq(t, Len(B64) + 1, Len(t)))
    ELSE Raise("binascii.Error")

\* security.encrypt_data (lines 94-100): the empty string stays empty,
\* anything else becomes the encoded token under the loaded key.
encrypt_data(data) ==
    IF data = "" THEN ""
    ELSE urlsafe_b64encode(Fernet_encrypt(ENCRYPTION_KEY, data))

\* security.decrypt_data (lines 103-113): the empty string stays empty; a
\* token is decoded and decrypted; on any exception the empty string is
\* returned.
decrypt_data(encrypted_data) ==
    IF encrypted_data = "" THEN Ok("")
    ELSE LET decoded == urlsafe_b64decode(encrypted_data)
         IN  IF decoded.exc # "" THEN Ok("")
             ELSE LET data == Fernet_decrypt(ENCRYPTION_KEY, decoded.value)
                  IN  IF data.exc # "" THEN Ok("") ELSE data

\* EncryptionService.encrypt_text (lines 33-50), the service holding `key`.
encrypt_text(key, plaintext) ==
    IF plaintext = "" THEN ""
    ELSE urlsafe_b64encode(Fernet_encrypt(key, plaintext))

\* EncryptionService.decrypt_text (lines 52-70): as decrypt_data, but every
\* exception is raised again as ValueError.
decrypt_text(key, encrypted_text) ==
    IF encrypted_text = "" THEN Ok("")
    ELSE LET decoded == urlsafe_b64decode(encrypted_text)
         IN  IF decoded.exc # "" THEN Raise("ValueError")
             ELSE LET data == Fernet_decrypt(key, decoded.value)
                  IN  IF data.exc # "" THEN Raise("ValueError") ELSE data

\* An uploaded file as the handlers see it, with the outcome of the two
\* operations on it that can fail: sealing (encrypt_file) and the commit
\* of its row.  A failed encrypt_file has written nothing, or (torn) it has
\* opened its output and written part of it.
Extensions == {"png", "exe"}
Sizes == {MAX_UPLOAD_SIZE, MAX_UPLOAD_SIZE + 1}

AllFiles ==
    [ext : Extensions, size : Sizes, seal_ok : BOOLEAN, torn : BOOLEAN,
     db_ok : BOOLEAN]

Defects(f) ==
    (IF f.ext \in ALLOWED_EXTENSIONS THEN 0 ELSE 1)
    + (IF f.size <= MAX_UPLOAD_SIZE THEN 0 ELSE 1)
    + (IF f.seal_ok THEN 0 ELSE 1)
    + (IF f.db_ok THEN 0 ELSE 1)

\* The files the model uploads: a sound one, and one for each single thing
\* that can be wrong with an upload.
Files == {f \in AllFiles : Defects(f) <= 1 /\ (f.torn => ~f.seal_ok)}

\* The callers of the model: one who may upload and one who may not.
Callers == {"staff", "viewer"}

\* A file with no defect.
Sound(f) == Defects(f) = 0

\* What a caller of the given role sends in the model: the caller who may
\* not upload is the one thing wrong with the request.
FilesOf(role) == IF can_upload(role) THEN Files ELSE {f \in Files : Sound(f)}

\* A file that differs from a sound one by its kind only.
OtherKind ==
    [ext |-> "exe", size |-> MAX_UPLOAD_SIZE, seal_ok |-> TRUE,
     torn |-> FALSE, db_ok |-> TRUE]

\* The sizes of the batches the model uploads: the small ones, and the two
\* at the limit of len(files) > 10.
BatchSizes == (1..MaxFiles) \cup {MAX_BATCH_FILES, MAX_BATCH_FILES + 1}

\* The batches of n files a caller sends: of the small sizes those whose
\* files before the last two are sound (every batch of one or two files is
\* among them); of the sizes at the limit those in which only the tenth file
\* may be of an allowed kind.
Batches(role, n) ==
    IF n <= MaxFiles
    THEN {b \in [1..n -> FilesOf(role)] : \A i \in 1..(n - 2) : Sound(b[i])}
    ELSE {[i \in 1..n |-> IF i = MAX_BATCH_FILES THEN f ELSE OtherKind] :
             f \in FilesOf(role)}



----------------------------------------------------------------------------
(* The directory tree and the file functions *)

\* StorageService.__init__ (lines 21-29): the staging root and below it the
\* encrypted store and the scratch root.
UPLOAD_DIR == "uploads"
ENCRYPTED_DIR == "uploads/encrypted"
PROCESSED_DIR == "uploads/processed"

\* os.path.join(directory, name)
join(directory, name) == [dir |-> directory, name |-> name]

\* A directory tree is the set of its entries; an entry has its path, what
\* it holds, when it was last written and whether it is a directory.
Entry(path, content, now) ==
    [dir |-> path.dir, name |-> path.name, content |-> content,
     mtime |-> now, isdir |-> FALSE]

Directory(path) ==
    [dir |-> path.dir, name |-> path.name, content |-> "", mtime |-> 0,
     isdir |-> TRUE]

At(d, path) == {e \in d : e.dir = path.dir /\ e.name = path.name}

\* os.path.exists(path)
exists(d, path) == At(d, path) # {}

\* open(path, 'rb').read() of a path that exists
read(d, path) == (CHOOSE e \in At(d, path) : TRUE).content

\* open(path, 'wb').write(content)
write(d, path, content, now) ==
    (d \ At(d, path)) \cup {Entry(path, content, now)}

\* os.unlink(path) of a path that exists
os_unlink(d, path) == d \ At(d, path)

\* os.makedirs of the two directories below the staging root
makedirs == {Directory(join(UPLOAD_DIR, "encrypted")),
             Directory(join(UPLOAD_DIR, "processed"))}

\* What can go wrong when a file function writes its output: the output
\* cannot be opened, or it is opened and only a part of it gets written.
WriteFaults == {"none", "open", "torn"}

\* The part of `content` a torn write leaves.
Torn(content) == SubSeq(content, 1, Len(content) - 1)

\* The file functions return whether they succeeded and leave the tree.
Done(ok, d) == [ok |-> ok, disk |-> d]

\* What lines 88-89 (security.py 124-126) do with the bytes to write.
WriteOut(d, output_path, data, now, fault) ==
    IF fault = "open" THEN Done(FALSE, d)
    ELSE IF fault = "torn"
    THEN Done(FALSE, write(d, output_path, Torn(data), now))
    ELSE Done(TRUE, write(d, output_path, data, now))

\* EncryptionService.encrypt_file (lines 72-95): read the input, encrypt,
\* then open the output and write the token; False on any exception.
encrypt_file(d, key, input_path, output_path, now, fault) ==
    IF ~exists(d, input_path) THEN Done(FALSE, d)
    ELSE WriteOut(d, output_path,
                  Fernet_encrypt(key, read(d, input_path)), now, fault)

\* EncryptionService.decrypt_file (lines 97-120): read the input, decrypt,
\* then open the output and write the data; False on any exception.
decrypt_file(d, key, input_path, output_path, now, fault) ==
    IF ~exists(d, input_path) THEN Done(FALSE, d)
    ELSE LET data == Fernet_decrypt(key, read(d, input_path))
         IN  IF data.exc # "" THEN Done(FALSE, d)
             ELSE WriteOut(d, output_path, data.value, now, fault)

\* security.encrypt_file (lines 116-130) and security.decrypt_file (lines
\* 133-147): the same steps with the cipher of the loaded key.
security_encrypt_file(d, input_path, output_path, now, fault) ==
    IF ~exists(d, input_path) THEN Done(FALSE, d)
    ELSE WriteOut(d, output_path,
                  Fernet_encrypt(ENCRYPTION_KEY, read(d, input_path)),
                  now, fault)

security_decrypt_file(d, input_path, output_path, now, fault) ==
    IF ~exists(d, input_path) THEN Done(FALSE, d)
    ELSE LET data == Fernet_decrypt(ENCRYPTION_KEY, read(d, input_path))
         IN  IF data.exc # "" THEN Done(FALSE, d)
             ELSE WriteOut(d, output_path, data.value, now, fault)

\* The bytes of an uploaded file.
Payload == "%PDF"

\* cipher_suite.encrypt(file_data) of the uploaded bytes (security.py line
\* 122).
PayloadToken == Fernet_encrypt(ENCRYPTION_KEY, Payload)

\* A file in the encrypted store: its name, whether it was written to its
\* end, the directory it is in and what it holds.
Sealed(name, complete, content) ==
    [name |-> name, complete |-> complete, dir |-> ENCRYPTED_DIR,
     content |-> content]

\* Mutant of Blob: the staged bytes are copied to the encrypted store as
\* they are.
BlobCopied(name, f) ==
    IF f.seal_ok THEN {Sealed(name, TRUE, Payload)}
    ELSE IF f.torn THEN {Sealed(name, FALSE, Torn(Payload))}
    ELSE {}

\* What encrypt_file(temp_file_path, encrypted_file_path) leaves in the
\* encrypted store for file f under `name`: the token of the staged bytes,
\* a part of it when the write is torn, nothing when it fails before.
Blob(name, f) ==
    IF f.seal_ok THEN {Sealed(name, TRUE, PayloadToken)}
    ELSE IF f.torn THEN {Sealed(name, FALSE, Torn(PayloadToken))}
    ELSE {}

----------------------------------------------------------------------------
(* The form fields of upload_document *)

\* The optional form fields of upload_document (lines 109-112): each is
\* absent or a string.
NoForm == [patient_id |-> Null, patient_name |-> Null, report_date |-> Null]

\* The strings datetime.fromisoformat accepts, among those of the model.
IsoDates == {"2024-01-15", "2024-01-15T10:30:00+00:00"}

ReportDates ==
    {Null, Some(""), Some("2024-01-15"), Some("2024-01-15T10:30:00Z"),
     Some("15/01/2024")}

AllForms ==
    [patient_id : {Null, Some(""), Some("P-17")},
     patient_name : {Null, Some("Ada")},
     report_date : ReportDates]

\* The number of fields a form carries.
Sent(form) ==
    Cardinality({column \in DOMAIN form : form[column] # Null})

\* The forms of the model: those that carry at most one field, and one
\* that carries all three.
Forms ==
    {form \in AllForms : Sent(form) <= 1}
    \cup {[patient_id |-> Some("P-17"), patient_name |-> Some("Ada"),
           report_date |-> Some("15/01/2024")]}

\* What a caller sends along with file f: the model varies the form of
\* the uploads that have nothing else wrong.
FormsOf(role, f) ==
    IF can_upload(role) /\ Sound(f) THEN Forms ELSE {NoForm}

\* `if field`: the field is there and not the empty string.
Given(field) == field # Null /\ field[1] # ""

\* str.replace('Z', '+00:00')
RECURSIVE replace_Z(_)
replace_Z(str) ==
    IF str = "" THEN ""
    ELSE (IF SubSeq(str, 1, 1) = "Z" THEN "+00:00" ELSE SubSeq(str, 1, 1))
         \o replace_Z(SubSeq(str, 2, Len(str)))

\* datetime.fromisoformat
fromisoformat(str) ==
    IF str \in IsoDates THEN Ok(str) ELSE Raise("ValueError")

\* Mutant of parsed_date: the string is stored as it came when it does
\* not parse.
parsed_date_as_sent(report_date) ==
    IF ~Given(report_date) THEN Null
    ELSE LET parsed == fromisoformat(replace_Z(report_date[1]))
         IN  IF parsed.exc # "" THEN report_date ELSE Some(parsed.value)

\* Lines 170-176: the date is parsed if one is given; when parsing raises,
\* the exception is passed over and parsed_date stays None.
parsed_date(report_date) ==
    IF ~Given(report_date) THEN Null
    ELSE LET parsed == fromisoformat(replace_Z(report_date[1]))
         IN  IF parsed.exc # "" THEN Null ELSE Some(parsed.value)

\* Mutant of PatientField: the value is stored as it came.
PatientFieldAsSent(field) == IF Given(field) THEN field ELSE Null

\* Lines 185-186: encrypt_data(field) if field else None
PatientField(field) ==
    IF Given(field) THEN Some(encrypt_data(field[1])) ELSE Null

\* Lines 179-191: the row of upload_document with the columns it fills
\* from the form.
SingleRow(row, form) ==
    [row EXCEPT !.patient_id = PatientField(form.patient_id),
                !.patient_name = PatientField(form.patient_name),
                !.report_date = parsed_date(form.report_date)]

WithForm(effects, form) ==
    [effects EXCEPT !.rows = {SingleRow(row, form) : row \in @}]

----------------------------------------------------------------------------
(* Blob store: the values of StorageService *)

\* The threads that call the StorageService.
Procs == 1..MaxCallers

\* What the callers save: the original filename, and per caller the
\* content of its file.
Filenames == {"r.pdf"}
ContentOf(p) == IF p % 2 = 1 THEN "x" ELSE "y"

NoPath == join("", "")

\* What a method of the service returns (a path, None, a count) or raises.
None == NoPath
Returns(path) == [exc |-> "", path |-> path, count |-> 0]
Raises(e) == [exc |-> e, path |-> NoPath, count |-> 0]
Counted(n) == [exc |-> "", path |-> NoPath, count |-> n]

\* A call in progress: the method, where it is, the file it reads
\* (source), the file it writes (target), its encrypt flag or its maximum
\* age, and its result; for save_file also the size and the digest it
\* returns with the path and the file it left at that path, and what a
\* later verify_file_integrity of the caller returned.
NoOp ==
    [pc |-> "idle", call |-> "none", source |-> NoPath, target |-> NoPath,
     encrypt |-> FALSE, max_age_hours |-> 0, result |-> Returns(None),
     size |-> 0, hash |-> "", left |-> Entry(NoPath, "", 0),
     verified |-> "none"]

\* _calculate_file_hash (lines 191-208): the SHA-256 hex digest of the
\* bytes of a file; different bytes have different digests.
sha256(content) == "sha256:" \o content

\* os.path.getsize
getsize(content) == Len(content)

\* Lines 44-45: the name is the time of the call, to the second, and the
\* original filename.
strftime(now) == ToString(now)

unique_filename(now, filename) == strftime(now) \o "_" \o filename

\* Lines 97-98: the scratch copy is named after the blob.
temp_name(file_path) == "temp_" \o file_path.name

\* The value nothing passes through the cipher yet.
NoCrypt ==
    [stage |-> "none", via |-> "none", x |-> "", token |-> "",
     tampering |-> "none", fault |-> "none", out |-> Ok("")]

----------------------------------------------------------------------------
(* Key material: settings.ENCRYPTION_KEY and the ciphers built of it *)

\* A configured key: the string of settings.ENCRYPTION_KEY by its number of
\* characters, the number of bytes of its UTF-8 encoding (more than its
\* characters when one of them is not ASCII) and whether these bytes are a
\* Fernet key, the url-safe base64 encoding of 32 bytes.  Every key has a
\* name of two characters.
NoKey == [name |-> "", chars |-> 0, bytes |-> 0, fernet |-> FALSE]

\* The keys the settings accept (config.py line 27, min_length=32): the
\* output of Fernet.generate_key(), a passphrase of 44 letters, passphrases
\* shorter and longer than 44, and two with one character of two bytes.
ConfiguredKeys ==
    {k \in {[name |-> "k1", chars |-> 44, bytes |-> 44, fernet |-> TRUE],
            [name |-> "k2", chars |-> 44, bytes |-> 44, fernet |-> FALSE],
            [name |-> "k3", chars |-> 32, bytes |-> 32, fernet |-> FALSE],
            [name |-> "k4", chars |-> 50, bytes |-> 50, fernet |-> FALSE],
            [name |-> "k5", chars |-> 44, bytes |-> 45, fernet |-> FALSE],
            [name |-> "k6", chars |-> 43, bytes |-> 44, fernet |-> FALSE]} :
        k.chars >= ENCRYPTION_KEY_MIN_LENGTH}

\* str.encode(): the bytes of a key, by their number, whether they are a
\* Fernet key, and the key material they stand for.
encode(key) == [len |-> key.bytes, fernet |-> key.fernet, material |-> key.name]

\* The number of characters base64 makes of n bytes.
b64len(n) == 4 * ((n + 2) \div 3)

\* base64.urlsafe_b64encode(key[:32]): the encoding of the first 32 bytes
\* (of all the bytes when there are fewer).  It is a Fernet key when it
\* encodes 32 bytes; its material is that of the prefix.
normalized(k) ==
    LET n == IF k.len < KEY_PREFIX_LENGTH THEN k.len ELSE KEY_PREFIX_LENGTH
    IN  [len |-> b64len(n), fernet |-> n = KEY_PREFIX_LENGTH,
         material |-> "n" \o SubSeq(k.material, 2, 2)]

\* Fernet(key): the cipher of the key material, or ValueError when the
\* bytes are not the url-safe base64 encoding of 32 bytes.
Fernet(k) == IF k.fernet THEN Ok(k.material) ELSE Raise("ValueError")

\* security.cipher_suite (line 21): the length tested is that of the
\* string.
cipher_suite(key) ==
    IF key.chars = FERNET_KEY_LENGTH THEN Fernet(encode(key))
    ELSE Fernet(normalized(encode(key)))

\* EncryptionService.__init__ (lines 21-31): the length tested is that of
\* the encoded bytes.
EncryptionService(key) ==
    LET k == encode(key)
    IN  IF k.len = FERNET_KEY_LENGTH THEN Fernet(k) ELSE Fernet(normalized(k))

----------------------------------------------------------------------------
(* State *)

VARIABLES
    reports,      \* table medical_reports: row i has id i
    entity_rows,  \* table extracted_entities
    req,          \* the upload requests and their BackgroundTasks
    unit,         \* per request, the unit of work its BackgroundTasks runs
    task,         \* per document, how far the unit scheduled for it got
    deleted,      \* the ids of the rows deleted from medical_reports
    staging,      \* the documents whose staged plaintext is under UPLOAD_DIR
    disk,         \* the directory tree a StorageService works on
    ops,          \* per caller, its StorageService call in progress
    clock,        \* the time of day, in seconds
    crypt,        \* one value on its way through the field cipher
    audit,        \* the events written to the logger 'audit'
    keyring,      \* a configured key and the ciphers the two sites build of it
    refresh_tokens, \* table refresh_tokens: row i has id i
    issued,       \* the tokens the auth routes have returned to clients
    sessions,     \* the requests to the auth routes
    analytics,    \* two stores, a caller and the dashboard computed on each
    gate          \* a filename and an allow-list through the two file-kind tests

\* The state of the pipeline of upload.py.
pipeline == <<reports, entity_rows, req, unit, task, deleted, staging>>

\* The state neither the pipeline nor the storage and cipher services touch.
others == <<audit, keyring, refresh_tokens, issued, sessions, analytics,
           gate>>

\* The state of the storage and cipher services and of the audit logger; the
\* pipeline of upload.py calls none of them and leaves it alone.
services == <<disk, ops, clock, crypt, others>>

vars == <<reports, entity_rows, req, unit, task, deleted, staging, services>>

\* The row upload_document / upload_batch_documents insert.
NewReport ==
    [status |-> PENDING,
     ocr_text |-> Null,
     confidence_score |-> Null,
     processing_time |-> Null,
     extracted_entities |-> Null,
     metadata |-> Null]

\* What a handler has done to the file system and to medical_reports.  Every
\* file the handler stages gets a fresh name (unique_filename, a uuid4); the
\* model names it by its position in the request.
\*   staged  the names of the plaintext files it left under UPLOAD_DIR
\*   blobs   the blobs it left under UPLOAD_DIR/encrypted
\*   rows    the rows it committed: their id and the name in file_path
NoEffects == [staged |-> {}, blobs |-> {}, rows |-> {}]

\* A request: how far its handling got, and while the handler's response is
\* not yet sent what the caller sent (role, files), what the handler
\* answers (results) and what it did (effects); the BackgroundTasks of the
\* request (tasks) and the position of the next one to run (cur).
NoRequest ==
    [state |-> "new", kind |-> "none", role |-> "none", files |-> <<>>,
     form |-> NoForm, results |-> <<>>, effects |-> NoEffects,
     tasks |-> <<>>, cur |-> 1]

Handled(kind, role, files, results, effects, tasks) ==
    [state |-> "handled", kind |-> kind, role |-> role, files |-> files,
     form |-> NoForm, results |-> results, effects |-> effects,
     tasks |-> tasks, cur |-> 1]

IdleUnit == [pc |-> "idle", report_id |-> 0, ocr_result |-> Null]

NoTask == [state |-> "none", fault |-> "none"]

\* log_audit: one event is handed to the logger 'audit', which appends it
\* to its file.
log_audit(log, user_id, action, resource_type, resource_id) ==
    Append(log, [user_id |-> user_id, action |-> action,
                 resource |-> resource_type, resource_id |-> resource_id])

\* No cipher is built of a configured key.
Unloaded == Raise("not loaded")

NoKeys ==
    [stage |-> "none", configured |-> NoKey, cipher_suite |-> Unloaded,
     cipher |-> Unloaded, from |-> "none", x |-> "", token |-> "",
     out |-> Unloaded]

\* The audit log is empty, no key is being loaded and the auth routes have
\* not been called.
OthersIdle ==
    /\ audit = <<>>
    /\ keyring = NoKeys
    /\ refresh_tokens = <<>>
    /\ issued = {}
    /\ sessions = <<>>
    /\ analytics = <<>>
    /\ gate = <<>>

\* The services while no StorageService is constructed and nothing is
\* passed through the cipher: no tree, no caller; the audit log is empty.
ServicesIdle ==
    /\ disk = {}
    /\ ops = <<>>
    /\ clock = 0
    /\ crypt = NoCrypt
    /\ OthersIdle

Init ==
    /\ reports = <<>>
    /\ entity_rows = {}
    /\ req = [r \in ReqIds |-> NoRequest]
    /\ unit = [r \in ReqIds |-> IdleUnit]
    /\ task = [d \in DocIds |-> NoTask]
    /\ deleted = {}
    /\ staging = {}
    /\ ServicesIdle

----------------------------------------------------------------------------
(* Ingestion gateway: upload_document *)

\* Mutant of UploadOutcome: the gate of the size rejects a stream of
\* exactly MAX_UPLOAD_SIZE bytes as well.
UploadOutcomeStrict(role, f) ==
    IF ~can_upload(role) THEN "forbidden"
    ELSE IF f.ext \notin ALLOWED_EXTENSIONS THEN "type_not_allowed"
    ELSE IF f.size >= MAX_UPLOAD_SIZE THEN "too_large"
    ELSE IF ~f.seal_ok THEN "encrypt_failed"
    ELSE IF ~f.db_ok THEN "commit_failed"
    ELSE "accepted"

\* The gates of upload_document in the order the handler applies them.
UploadOutcome(role, f) ==
    IF ~can_upload(role) THEN "forbidden"
    ELSE IF f.ext \notin ALLOWED_EXTENSIONS THEN "type_not_allowed"
    ELSE IF f.size > MAX_UPLOAD_SIZE THEN "too_large"
    ELSE IF ~f.seal_ok THEN "encrypt_failed"
    ELSE IF ~f.db_ok THEN "commit_failed"
    ELSE "accepted"

\* Mutant of add_task: the unit is scheduled twice.
add_task_twice(tasks, report_id) == Append(Append(tasks, report_id), report_id)

\* background_tasks.add_task(process_document_background, new_report.id, ...)
add_task(tasks, report_id) == Append(tasks, report_id)

Receipt(report_id) ==
    [status |-> "pending", report_id |-> report_id, detail |-> ""]

ErrorEntry(detail) ==
    [status |-> "error", report_id |-> 0, detail |-> detail]

\* A handler that raises its HTTPException before it wrote anything.
Rejected(kind, role, files, detail) ==
    Handled(kind, role, files, <<ErrorEntry(detail)>>, NoEffects, <<>>)

Queued == [state |-> "queued", fault |-> "none"]

\* Request r may be taken up by the event loop.  Both handlers are
\* coroutines without an await, so the event loop runs one at a time; the
\* order of one request's response and another request's handler matters to
\* neither, and the model lets the response go out first.  The model stops
\* uploading once MaxDocs documents exist.
MayArrive(r) ==
    /\ req[r].state = "new"
    /\ \A q \in 1..(r - 1) : req[q].state # "new"
    /\ \A q \in ReqIds : req[q].state # "handled"
    /\ Len(reports) < MaxDocs

\* os.unlink(temp_file_path)
unlink(files, name) == files \ {name}

\* The committed row as far as the file is concerned: its id and its
\* file_path, which is encrypted_file_path (lines 154, 184 and 253, 269),
\* the name under UPLOAD_DIR/encrypted.
\* The columns the handler does not name are NULL.
Row(id, name) ==
    [report_id |-> id, file_path |-> name, file_dir |-> ENCRYPTED_DIR,
     patient_id |-> Null, patient_name |-> Null, report_date |-> Null]

\* The documents whose unit is handed a staged file that exists: add_task
\* passes temp_file_path (lines 198-204, 280-286) of every row committed.
Handed(effects) ==
    {row.report_id : row \in {x \in effects.rows :
                                 x.file_path \in effects.staged}}

\* Mutant of SingleEffects: the stream is staged and sealed before the
\* gates of kind and size are applied.
SingleEffectsStageFirst(out, f, id) ==
    IF out = "forbidden"
    THEN NoEffects
    ELSE [staged |-> IF out = "encrypt_failed" THEN unlink({1}, 1) ELSE {1},
          blobs |-> Blob(1, f),
          rows |-> IF out = "accepted"
                   THEN {Row(id, 1)} ELSE {}]

\* Lines 151-195 of upload_document for an upload that passed the gates of
\* kind and size: the stream is copied to the staging root and sealed; when
\* sealing fails the staged file is removed again; else the row is
\* committed.
SingleEffects(out, f, id) ==
    IF out \in {"forbidden", "type_not_allowed", "too_large"}
    THEN NoEffects
    ELSE [staged |-> IF out = "encrypt_failed" THEN unlink({1}, 1) ELSE {1},
          blobs |-> Blob(1, f),
          rows |-> IF out = "accepted"
                   THEN {Row(id, 1)} ELSE {}]

UploadDocument(r) ==
    /\ MayArrive(r)
    /\ \E role \in Callers :
        \E f \in FilesOf(role) : \E form \in FormsOf(role, f) :
          LET out == UploadOutcome(role, f)
              id == Len(reports) + 1
              effects == WithForm(SingleEffects(out, f, id), form)
          IN  IF out = "accepted"
              THEN /\ id <= MaxDocs
                   /\ reports' = Append(reports, NewReport)
                   /\ task' = [task EXCEPT ![id] = Queued]
                   /\ req' = [req EXCEPT ![r] =
                                [Handled("single", role, <<f>>,
                                         <<Receipt(id)>>, effects,
                                         add_task(<<>>, id))
                                 EXCEPT !.form = form]]
                   /\ staging' = staging \cup Handed(effects)
              ELSE /\ req' = [req EXCEPT ![r] =
                                [Handled("single", role, <<f>>,
                                         <<ErrorEntry(out)>>, effects, <<>>)
                                 EXCEPT !.form = form]]
                   /\ UNCHANGED <<reports, task, staging>>
    /\ UNCHANGED <<entity_rows, unit, deleted, services>>

----------------------------------------------------------------------------
(* Ingestion gateway: upload_batch_documents *)

NoneYet == [results |-> <<>>, effects |-> NoEffects, tasks |-> <<>>]

\* Mutant of BatchLoop: the first file that fails ends the loop.
RECURSIVE BatchLoopAbort(_, _, _, _)
BatchLoopAbort(files, i, base, acc) ==
    IF i > Len(files) THEN acc
    ELSE LET f == files[i]
             id == base + Cardinality(acc.effects.rows) + 1
             written == [acc EXCEPT !.effects.staged = @ \cup {i},
                                    !.effects.blobs = @ \cup Blob(i, f)]
         IN  IF f.ext \notin ALLOWED_EXTENSIONS
             THEN [acc EXCEPT !.results =
                      Append(@, ErrorEntry("type_not_allowed"))]
             ELSE IF ~f.db_ok
             THEN [written EXCEPT !.results =
                      Append(@, ErrorEntry("commit_failed"))]
             ELSE BatchLoopAbort(files, i + 1, base,
                    [written EXCEPT
                        !.effects.rows =
                            @ \cup {Row(id, i)},
                        !.results = Append(@, Receipt(id)),
                        !.tasks = add_task(@, id)])

\* One pass of the loop of lines 238-300 over files[i..]; base is the
\* number of rows before the call, acc holds the result list, what was
\* written and the scheduled tasks so far.  The loop has the gate of the
\* file kind; it looks neither at file_size nor at what encrypt_file
\* returns.
RECURSIVE BatchLoop(_, _, _, _)
BatchLoop(files, i, base, acc) ==
    IF i > Len(files) THEN acc
    ELSE LET f == files[i]
             id == base + Cardinality(acc.effects.rows) + 1
             written == [acc EXCEPT !.effects.staged = @ \cup {i},
                                    !.effects.blobs = @ \cup Blob(i, f)]
         IN  IF f.ext \notin ALLOWED_EXTENSIONS
             THEN BatchLoop(files, i + 1, base,
                    [acc EXCEPT !.results =
                        Append(@, ErrorEntry("type_not_allowed"))])
             ELSE IF ~f.db_ok
             THEN BatchLoop(files, i + 1, base,
                    [written EXCEPT !.results =
                        Append(@, ErrorEntry("commit_failed"))])
             ELSE BatchLoop(files, i + 1, base,
                    [written EXCEPT
                        !.effects.rows =
                            @ \cup {Row(id, i)},
                        !.results = Append(@, Receipt(id)),
                        !.tasks = add_task(@, id)])

\* Mutant of TooManyFiles: a batch of exactly ten files is rejected too.
TooManyFilesFromTen(files) == Len(files) >= MAX_BATCH_FILES

\* Line 230: if len(files) > 10
TooManyFiles(files) == Len(files) > MAX_BATCH_FILES

UploadBatch(r) ==
    /\ MayArrive(r)
    /\ \E role \in Callers, n \in BatchSizes :
        \E files \in Batches(role, n) :
          IF ~can_upload(role)
          THEN /\ req' = [req EXCEPT ![r] =
                            Rejected("batch", role, files, "forbidden")]
               /\ UNCHANGED <<reports, task, staging>>
          ELSE IF TooManyFiles(files)
          THEN /\ req' = [req EXCEPT ![r] =
                            Rejected("batch", role, files, "too_many_files")]
               /\ UNCHANGED <<reports, task, staging>>
          ELSE LET base == Len(reports)
                   out == BatchLoop(files, 1, base, NoneYet)
                   created == Cardinality(out.effects.rows)
               IN  /\ base + created <= MaxDocs
                   /\ reports' = reports \o [j \in 1..created |-> NewReport]
                   /\ task' = [d \in DocIds |->
                                 IF d \in (base + 1)..(base + created)
                                 THEN Queued ELSE task[d]]
                   /\ req' = [req EXCEPT ![r] =
                                Handled("batch", role, files, out.results,
                                        out.effects, out.tasks)]
                   /\ staging' = staging \cup Handed(out.effects)
    /\ UNCHANGED <<entity_rows, unit, deleted, services>>

\* The handler's return value is sent to the caller and is no longer held
\* by the server; only then does the framework run the request's
\* BackgroundTasks.  With the handler the record of what it was sent and
\* what it did is dropped: none of the files it wrote is written or removed
\* again by a handler or by the unit of work.
SendResponse(r) ==
    /\ req[r].state = "handled"
    /\ req' = [req EXCEPT ![r].state = "responded",
                          ![r].kind = "none",
                          ![r].role = "none",
                          ![r].files = <<>>,
                          ![r].form = NoForm,
                          ![r].results = <<>>,
                          ![r].effects = NoEffects]
    /\ UNCHANGED <<reports, entity_rows, unit, task, deleted, staging,
                   services>>

----------------------------------------------------------------------------
(* The session: commit and rollback *)

\* A successful db_session.commit(): everything the session holds is
\* flushed, the loaded report's attributes and every added entity object.
CommittedReports(id, report) == [reports EXCEPT ![id] = report]
CommittedEntities(pending) == entity_rows \cup pending

\* db_session.add(ExtractedEntity(report_id=..., entity_type=..., ...))
ExtractedEntity(id, it) ==
    [report_id |-> id, entity_type |-> it.entity_type, item |-> it.item]

\* Mutant of add: the row is built but never added to the session.
add_nothing(pending, entity) == pending

add(pending, entity) == pending \cup {entity}

\* Lines 68-76: the result fields assigned to the loaded report.
StagedResult(report, res, entities) ==
    [report EXCEPT
        !.ocr_text = Some(encrypt_data(res.text)),
        !.confidence_score = Some(res.confidence),
        !.processing_time = Some(res.processing_time),
        !.extracted_entities = Some(entities),
        !.metadata = Some([entity_summary |-> entities, pages |-> 1]),
        !.status = COMPLETED]

\* Lines 55-56 and 100-101: the failure fields.
StagedFailure(report, message) ==
    [report EXCEPT
        !.status = FAILED,
        !.metadata = Some([error |-> message])]

Running == [state |-> "running", fault |-> "none"]
Returned(fault) == [state |-> "returned", fault |-> fault]
Raised(fault) == [state |-> "raised", fault |-> fault]

\* The unit returns: the framework goes on to the request's next task.
ReturnFrom(r) ==
    /\ unit' = [unit EXCEPT ![r] = IdleUnit]
    /\ req' = [req EXCEPT ![r].cur = @ + 1]

\* An exception leaves the unit: the framework stops running the tasks of
\* this request.
RaiseFrom(r, id) ==
    /\ unit' = [unit EXCEPT ![r] = [IdleUnit EXCEPT !.pc = "raised",
                                                    !.report_id = id]]
    /\ UNCHANGED req

\* What the session holds after a failed commit: it was rolled back, so
\* the loaded report shows the committed row again and nothing is pending.
RolledBack(id) == [report |-> reports[id], pending |-> {}]

----------------------------------------------------------------------------
(* Processing orchestrator: process_document_background *)

\* Lines 97-102, the except clause, entered with exception e while the
\* session holds `report` and `pending`: FAILED and the error are assigned
\* and committed.  No rollback precedes the assignment, so the commit
\* flushes whatever the session still holds; if this commit fails in turn,
\* the exception leaves the unit.
ExceptClause(r, id, session, e) ==
    \E commit_ok \in BOOLEAN :
       IF commit_ok
       THEN /\ reports' = CommittedReports(id,
                             StagedFailure(session.report, e))
            /\ entity_rows' = CommittedEntities(session.pending)
            /\ ReturnFrom(r)
            /\ task' = [task EXCEPT ![id] = Returned(e)]
       ELSE /\ RaiseFrom(r, id)
            /\ task' = [task EXCEPT ![id] = Raised(e)]
            /\ UNCHANGED <<reports, entity_rows>>

\* Mutant of MayStart: the unit is run from the handler itself, not handed
\* to the framework to run after the response.
MayStartBeforeResponse(r) ==
    /\ req[r].state \in {"handled", "responded"}
    /\ unit[r].pc = "idle"
    /\ req[r].cur <= Len(req[r].tasks)

\* Whether the framework may start the next task of request r.
MayStart(r) ==
    /\ req[r].state = "responded"
    /\ unit[r].pc = "idle"
    /\ req[r].cur <= Len(req[r].tasks)

\* Mutant of NotFound: a report that is not found is an error of the unit.
NotFoundRaises(r, id) ==
    /\ RaiseFrom(r, id)
    /\ task' = [task EXCEPT ![id] = Raised("not_found")]
    /\ UNCHANGED <<reports, entity_rows>>

\* Lines 44-45: .first() returned None; the unit returns.
NotFound(r, id) ==
    /\ ReturnFrom(r)
    /\ task' = [task EXCEPT ![id] = Returned("none")]
    /\ UNCHANGED <<reports, entity_rows>>

\* Lines 38-49: look the report up, set PROCESSING, commit.
UnitStart(r) ==
    /\ MayStart(r)
    /\ UNCHANGED <<deleted, staging, services>>
    /\ LET id == req[r].tasks[req[r].cur]
       IN  \E fault \in {"none", "lookup", "commit_processing"} :
             IF fault = "lookup"
             THEN \* the query raises; the except clause reads `report`,
                  \* which was never bound, and that error leaves the unit
                  /\ RaiseFrom(r, id)
                  /\ task' = [task EXCEPT ![id] = Raised(fault)]
                  /\ UNCHANGED <<reports, entity_rows>>
             ELSE IF id \in deleted
             THEN NotFound(r, id)
             ELSE IF fault = "commit_processing"
             THEN ExceptClause(r, id, RolledBack(id), fault)
             ELSE /\ reports' = CommittedReports(id,
                                  [reports[id] EXCEPT !.status = PROCESSING])
                  /\ unit' = [unit EXCEPT ![r] =
                                [IdleUnit EXCEPT !.pc = "ocr",
                                                 !.report_id = id]]
                  /\ task' = [task EXCEPT ![id] = Running]
                  /\ UNCHANGED <<entity_rows, req>>

\* Mutant of ocr_error: the fixed text is recorded whatever the engine
\* reported.
ocr_error_fixed(res) == "OCR failed"

\* Line 56: ocr_result.get('error', 'OCR failed')
ocr_error(res) == IF "error" \in DOMAIN res THEN res.error ELSE "OCR failed"

\* Lines 52-58: recognition; a reported failure is recorded and the unit
\* returns.
\* What process_document returns for the staged file of Document id: any
\* result when the file is there; when it is not, the exception of opening
\* it is caught (ocr_service.py lines 82-90, 145-153) and the result is a
\* failure.
OcrResultsOf(id) ==
    IF id \in staging THEN OcrResults
    ELSE {res \in OcrResults : ~res.success}

UnitRecognize(r) ==
    /\ unit[r].pc = "ocr"
    /\ UNCHANGED <<deleted, staging, services>>
    /\ LET id == unit[r].report_id
       IN  \E res \in OcrResultsOf(id), commit_ok \in BOOLEAN :
             IF res.success
             THEN /\ unit' = [unit EXCEPT ![r].pc = "extract",
                                          ![r].ocr_result = Some(res)]
                  /\ UNCHANGED <<reports, entity_rows, req, task>>
             ELSE IF commit_ok
             THEN /\ reports' = CommittedReports(id,
                                  StagedFailure(reports[id], ocr_error(res)))
                  /\ entity_rows' = CommittedEntities({})
                  /\ ReturnFrom(r)
                  /\ task' = [task EXCEPT ![id] =
                                Returned("recognition_failure")]
             ELSE ExceptClause(r, id, RolledBack(id), "commit_ocr_failed")

\* Lines 79-93: the loop over the extracted items, run for its first n
\* iterations: each builds the entity row of one item, if the item is a
\* record, and adds it to the session.
RECURSIVE AddEntities(_, _, _, _)
AddEntities(pending, id, items, n) ==
    IF n = 0 THEN pending
    ELSE IF items[n].is_dict
    THEN add(AddEntities(pending, id, items, n - 1),
             ExtractedEntity(id, items[n]))
    ELSE AddEntities(pending, id, items, n - 1)

\* Lines 61-95: entity extraction, summary and field encryption; the
\* result fields and COMPLETED are assigned to the loaded report; one
\* entity row per item is added to the session; commit.  Nothing of this
\* is visible outside the session before a commit.  `fault` is where an
\* exception is raised, if any; `stop` is the item whose row construction
\* raises when fault = "entity_row".
UnitExtract(r) ==
    /\ unit[r].pc = "extract"
    /\ UNCHANGED <<deleted, staging, services>>
    /\ LET id == unit[r].report_id
       IN  \E fault \in {"none", "extract_entities", "encrypt_data",
                        "entity_row", "final_commit"},
             entities \in EntityOutputs :
             LET items == Items(entities)
                 staged == StagedResult(reports[id],
                                        unit[r].ocr_result[1], entities)
             IN  IF fault \in {"extract_entities", "encrypt_data"}
                 THEN ExceptClause(r, id,
                        [report |-> reports[id], pending |-> {}], fault)
                 ELSE IF fault = "entity_row"
                 THEN \E stop \in 1..Len(items) :
                        ExceptClause(r, id,
                          [report |-> staged,
                           pending |-> AddEntities({}, id, items, stop - 1)],
                          fault)
                 ELSE IF fault = "final_commit"
                 THEN ExceptClause(r, id, RolledBack(id), fault)
                 ELSE /\ reports' = CommittedReports(id, staged)
                      /\ entity_rows' = CommittedEntities(
                            AddEntities({}, id, items, Len(items)))
                      /\ ReturnFrom(r)
                      /\ task' = [task EXCEPT ![id] = Returned("none")]

----------------------------------------------------------------------------
(* Specification *)

Next ==
    \E r \in ReqIds :
        \/ UploadDocument(r)
        \/ UploadBatch(r)
        \/ SendResponse(r)
        \/ UnitStart(r)
        \/ UnitRecognize(r)
        \/ UnitExtract(r)

Spec == Init /\ [][Next]_vars

\* The scheduling the framework guarantees: a response that is ready is
\* sent, and a background task whose turn it is runs and, the engines
\* returning, goes on to its next step.  No caller is obliged to upload.
Fairness ==
    \A r \in ReqIds :
        /\ WF_vars(SendResponse(r))
        /\ WF_vars(UnitStart(r))
        /\ WF_vars(UnitRecognize(r))
        /\ WF_vars(UnitExtract(r))

FairSpec == Spec /\ Fairness

----------------------------------------------------------------------------
(* The pipeline together with the administrative deletion of a Document *)

\* The deletion of Document d by an administrator: the row and its Entity
\* rows (cascade) go.  The model deletes Documents whose unit has not
\* started yet.
DeleteReport(d) ==
    /\ d \in DOMAIN reports
    /\ d \notin deleted
    /\ task[d].state = "queued"
    /\ deleted' = deleted \cup {d}
    /\ entity_rows' = {x \in entity_rows : x.report_id # d}
    /\ UNCHANGED <<reports, req, unit, task, staging, services>>

NextWithDeletion ==
    \/ Next
    \/ \E d \in DocIds : DeleteReport(d)

SpecWithDeletion == Init /\ [][NextWithDeletion]_vars

----------------------------------------------------------------------------
(* Blob store: StorageService *)

\* Mutant of save_file_seal: the staged file is removed whether or not the
\* encryption succeeded.
save_file_seal_unlink_always(d, temp_path, encrypt, now, fault) ==
    IF ~encrypt THEN [disk |-> d, result |-> Returns(temp_path)]
    ELSE LET encrypted_path == join(ENCRYPTED_DIR, temp_path.name)
             sealed == encrypt_file(d, ENCRYPTION_KEY, temp_path,
                                    encrypted_path, now, fault)
         IN  IF sealed.ok
             THEN [disk |-> os_unlink(sealed.disk, temp_path),
                   result |-> Returns(encrypted_path)]
             ELSE [disk |-> os_unlink(sealed.disk, temp_path),
                   result |-> Raises("Exception")]

\* save_file, lines 58-79, on the file staged as temp_path: with encrypt
\* the file is sealed into the encrypted store under the same name; on
\* success the staged file is unlinked and the blob's path returned, else
\* the call raises.  Without encrypt the staged file is the stored file.
save_file_seal(d, temp_path, encrypt, now, fault) ==
    IF ~encrypt THEN [disk |-> d, result |-> Returns(temp_path)]
    ELSE LET encrypted_path == join(ENCRYPTED_DIR, temp_path.name)
             sealed == encrypt_file(d, ENCRYPTION_KEY, temp_path,
                                    encrypted_path, now, fault)
         IN  IF sealed.ok
             THEN IF exists(sealed.disk, temp_path)
                  THEN [disk |-> os_unlink(sealed.disk, temp_path),
                        result |-> Returns(encrypted_path)]
                  ELSE [disk |-> sealed.disk,
                        result |-> Raises("FileNotFoundError")]
             ELSE [disk |-> sealed.disk, result |-> Raises("Exception")]

\* The callers are numbered in the order in which their calls begin.
InTurn(p) == \A q \in Procs : q < p => ops[q].pc # "idle"

\* save_file, lines 43-56: the name is chosen and the stream copied to the
\* staging root.
SaveBegin(p) ==
    /\ ops[p].pc = "idle"
    /\ InTurn(p)
    /\ \E filename \in Filenames, encrypt \in BOOLEAN :
         LET temp_path == join(UPLOAD_DIR, unique_filename(clock, filename))
             staged == write(disk, temp_path, ContentOf(p), clock)
         IN  /\ disk' = staged
             /\ ops' = [ops EXCEPT ![p] =
                          [NoOp EXCEPT
                             !.pc = "staged", !.call = "save_file",
                             !.target = temp_path, !.encrypt = encrypt,
                             !.size = getsize(read(staged, temp_path)),
                             !.hash = sha256(read(staged, temp_path))]]
    /\ UNCHANGED <<clock, crypt>>
    /\ UNCHANGED <<pipeline, others>>

SaveFinish(p) ==
    /\ ops[p].pc = "staged"
    /\ \E fault \in WriteFaults :
         LET out == save_file_seal(disk, ops[p].target, ops[p].encrypt,
                                   clock, fault)
         IN  /\ disk' = out.disk
             /\ ops' = [ops EXCEPT
                          ![p].pc = "done",
                          ![p].result = out.result,
                          ![p].left =
                             IF exists(out.disk, out.result.path)
                             THEN CHOOSE e \in At(out.disk, out.result.path) :
                                     TRUE
                             ELSE @]
    /\ UNCHANGED <<clock, crypt>>
    /\ UNCHANGED <<pipeline, others>>

\* verify_file_integrity (lines 210-218): the digest of the file now at
\* file_path is compared with the expected one; a path that does not exist
\* raises.
verify_file_integrity(d, file_path, expected_hash) ==
    IF ~exists(d, file_path) THEN "FileNotFoundError"
    ELSE IF sha256(read(d, file_path)) = expected_hash THEN "True"
    ELSE "False"

\* The caller of a save_file that returned checks the file at the returned
\* path against the returned digest.
Verify(p) ==
    /\ ops[p].pc = "done"
    /\ ops[p].call = "save_file"
    /\ ops[p].result.exc = ""
    /\ ops' = [ops EXCEPT
                 ![p].pc = "verified",
                 ![p].verified = verify_file_integrity(disk,
                                     ops[p].result.path, ops[p].hash)]
    /\ UNCHANGED <<disk, clock, crypt>>
    /\ UNCHANGED <<pipeline, others>>

\* The blobs a caller may ask for: those in the encrypted store, and one
\* that is not there.
Missing == join(ENCRYPTED_DIR, "0_none.pdf")

Stored(d) == {join(e.dir, e.name) : e \in {x \in d : x.dir = ENCRYPTED_DIR}}

\* retrieve_file, lines 91-98: a path that does not exist gives None;
\* without decrypt the path itself is returned; else the scratch path is
\* chosen.
RetrieveBegin(p) ==
    /\ ops[p].pc = "idle"
    /\ InTurn(p)
    /\ \E file_path \in Stored(disk) \cup {Missing}, decrypt \in BOOLEAN :
         ops' = [ops EXCEPT ![p] =
                   IF ~exists(disk, file_path)
                   THEN [NoOp EXCEPT !.pc = "done", !.call = "retrieve_file",
                                     !.source = file_path,
                                     !.result = Returns(None)]
                   ELSE IF ~decrypt
                   THEN [NoOp EXCEPT !.pc = "done", !.call = "retrieve_file",
                                     !.source = file_path,
                                     !.result = Returns(file_path)]
                   ELSE [NoOp EXCEPT !.pc = "opening",
                                     !.call = "retrieve_file",
                                     !.source = file_path,
                                     !.target =
                                        join(PROCESSED_DIR,
                                             temp_name(file_path))]]
    /\ UNCHANGED <<disk, clock, crypt>>
    /\ UNCHANGED <<pipeline, others>>

\* retrieve_file, lines 100-105: the blob is decrypted into the scratch
\* path; the path is returned if that succeeded, None if not.
RetrieveFinish(p) ==
    /\ ops[p].pc = "opening"
    /\ \E fault \in WriteFaults :
         LET opened == decrypt_file(disk, ENCRYPTION_KEY, ops[p].source,
                                    ops[p].target, clock, fault)
         IN  /\ disk' = opened.disk
             /\ ops' = [ops EXCEPT ![p].pc = "done",
                                   ![p].result = IF opened.ok
                                                 THEN Returns(ops[p].target)
                                                 ELSE Returns(None)]
    /\ UNCHANGED <<clock, crypt>>
    /\ UNCHANGED <<pipeline, others>>

\* The maximum ages a caller passes to cleanup_temp_files, in hours.
MaxAges == {0, 1}

\* Mutant of TooOld: a file as old as the maximum is deleted too.
TooOldFromMax(e, now, max_age_hours) ==
    now - e.mtime >= max_age_hours * SECONDS_PER_HOUR

\* Lines 140, 151-153: file_age > max_age_seconds
TooOld(e, now, max_age_hours) ==
    now - e.mtime > max_age_hours * SECONDS_PER_HOUR

\* Lines 142-153: the entries the loops reach and find too old: those
\* directly inside the staging root and the scratch root that are not
\* directories.
Expired(d, now, max_age_hours) ==
    {e \in d : /\ e.dir \in {UPLOAD_DIR, PROCESSED_DIR}
               /\ ~e.isdir
               /\ TooOld(e, now, max_age_hours)}

\* cleanup_temp_files (lines 128-160): every expired entry is unlinked;
\* those whose unlink raises (failing) stay and are not counted.
cleanup_temp_files(d, now, max_age_hours, failing) ==
    LET gone == Expired(d, now, max_age_hours) \ failing
    IN  [disk |-> d \ gone, deleted_count |-> Cardinality(gone)]

\* The model lets the unlink of at most one entry raise.
AtMostOne(entries) == {{}} \cup {{e} : e \in entries}

Cleanup(p) ==
    /\ ops[p].pc = "idle"
    /\ InTurn(p)
    /\ \E max_age_hours \in MaxAges :
         \E failing \in AtMostOne(Expired(disk, clock, max_age_hours)) :
           LET out == cleanup_temp_files(disk, clock, max_age_hours, failing)
           IN  /\ disk' = out.disk
               /\ ops' = [ops EXCEPT ![p] =
                            [NoOp EXCEPT !.pc = "done",
                                         !.call = "cleanup_temp_files",
                                         !.max_age_hours = max_age_hours,
                                         !.result =
                                            Counted(out.deleted_count)]]
    /\ UNCHANGED <<clock, crypt>>
    /\ UNCHANGED <<pipeline, others>>

\* Time passes: a second, or an hour.  The model lets it pass MaxTicks
\* times.
Ticks(now) == (now \div SECONDS_PER_HOUR) + (now % SECONDS_PER_HOUR)

Tick ==
    /\ Ticks(clock) < MaxTicks
    /\ \E d \in {1, SECONDS_PER_HOUR} : clock' = clock + d
    /\ UNCHANGED <<disk, ops, crypt>>
    /\ UNCHANGED <<pipeline, others>>

\* What earlier calls may have left at time 0: a staged file whose sealing
\* failed, a blob, and the scratch copy of a blob.
Earlier ==
    {Entry(join(UPLOAD_DIR, unique_filename(0, "old.pdf")), "x", 0),
     Entry(join(ENCRYPTED_DIR, unique_filename(0, "old.pdf")),
           Fernet_encrypt(ENCRYPTION_KEY, "x"), 0),
     Entry(join(PROCESSED_DIR,
                temp_name(join(ENCRYPTED_DIR, unique_filename(0, "old.pdf")))),
           "x", 0)}

\* Every caller makes one call.
StorageInit ==
    /\ reports = <<>>
    /\ entity_rows = {}
    /\ req = [r \in ReqIds |-> NoRequest]
    /\ unit = [r \in ReqIds |-> IdleUnit]
    /\ task = [d \in DocIds |-> NoTask]
    /\ deleted = {}
    /\ staging = {}
    /\ \E left \in {{}, Earlier} : disk = makedirs \cup left
    /\ ops = [p \in Procs |-> NoOp]
    /\ clock = 0
    /\ crypt = NoCrypt
    /\ OthersIdle

StorageNext ==
    \/ \E p \in Procs :
          \/ SaveBegin(p)
          \/ SaveFinish(p)
          \/ RetrieveBegin(p)
          \/ RetrieveFinish(p)
          \/ Cleanup(p)
    \/ Tick

StorageSpec == StorageInit /\ [][StorageNext]_vars

\* The callers save files and check what they saved.
IntegrityNext ==
    \/ \E p \in Procs :
          \/ SaveBegin(p)
          \/ SaveFinish(p)
          \/ Verify(p)
    \/ Tick

IntegritySpec == StorageInit /\ [][IntegrityNext]_vars

----------------------------------------------------------------------------
(* The pipeline together with a StorageService sweeping the staging root *)

\* The staged files of the pipeline as the tree under UPLOAD_DIR: the file
\* of Document d is named after d and was written at second d (handlers
\* stage their files in the order of the row identifiers).
StagingTree(docs) ==
    {Entry(join(UPLOAD_DIR, ToString(d)), Payload, d) : d \in docs}

\* The Documents whose staged file is in tree d.
StagedIn(d) ==
    {doc \in DocIds : exists(d, join(UPLOAD_DIR, ToString(doc)))}

\* The times of day a sweep may run at: during the uploads, and an hour
\* later.
SweepTimes ==
    {t + h * SECONDS_PER_HOUR : t \in 0..(MaxDocs + 1), h \in {0, 1}}

\* cleanup_temp_files (lines 128-160) is called on the directory the
\* handlers stage their files in (settings.UPLOAD_DIR, storage_service.py
\* line 23 and upload.py line 153).
SweepStaging ==
    /\ \E now \in SweepTimes, max_age_hours \in MaxAges :
         LET out == cleanup_temp_files(StagingTree(staging), now,
                                       max_age_hours, {})
         IN  /\ out.deleted_count > 0
             /\ staging' = StagedIn(out.disk)
    /\ UNCHANGED <<reports, entity_rows, req, unit, task, deleted, services>>

NextWithCleanup ==
    \/ Next
    \/ SweepStaging

SpecWithCleanup == Init /\ [][NextWithCleanup]_vars

----------------------------------------------------------------------------
(* Cipher boundary: one value through encryption, the medium, decryption *)

\* The ways through the cipher: the field functions of EncryptionService
\* and of security.py, and the file functions of both.
FieldVias == {"encrypt_text", "encrypt_data"}
FileVias == {"encrypt_file", "security.encrypt_file"}

\* The values encrypted: field values, or the bytes of a file.
Plaintexts == {"", "a", "P-17"}

\* The plaintext file, the blob made of it and the file decrypted from the
\* blob.
PlainPath == join(UPLOAD_DIR, "in.pdf")
BlobPath == join(ENCRYPTED_DIR, "in.pdf")
OpenedPath == join(PROCESSED_DIR, "temp_in.pdf")

\* One byte of a token or of a blob is changed: the changed byte is a byte
\* no token holds.
Corrupted(content, i) ==
    SubSeq(content, 1, i - 1) \o "#" \o SubSeq(content, i + 1, Len(content))

\* What may become of a token or a blob of x before it is decrypted: one
\* of its bytes is changed, it is replaced by the token or blob of another
\* key, or by something that is no token at all.
Tampered(via, x, token) ==
    [kind : {"byte"}, token : {Corrupted(token, i) : i \in 1..Len(token)}]
    \cup [kind : {"foreign"},
          token : {IF via \in FieldVias THEN encrypt_text(FOREIGN_KEY, x)
                   ELSE Fernet_encrypt(FOREIGN_KEY, x)}]
    \cup [kind : {"garbage"}, token : {"garbage", B64 \o "garbage"}]

CipherInit ==
    /\ reports = <<>>
    /\ entity_rows = {}
    /\ req = [r \in ReqIds |-> NoRequest]
    /\ unit = [r \in ReqIds |-> IdleUnit]
    /\ task = [d \in DocIds |-> NoTask]
    /\ deleted = {}
    /\ staging = {}
    /\ ops = [p \in Procs |-> NoOp]
    /\ clock = 0
    /\ OthersIdle
    /\ \E via \in FieldVias \cup FileVias, x \in Plaintexts :
         /\ crypt = [NoCrypt EXCEPT !.stage = "plain", !.via = via, !.x = x]
         /\ disk = IF via \in FileVias
                   THEN makedirs \cup {Entry(PlainPath, x, 0)}
                   ELSE makedirs

\* The value is encrypted: a field by its function, a file into the blob.
Encrypt ==
    /\ crypt.stage = "plain"
    /\ \E fault \in WriteFaults :
         LET sealed ==
                 IF crypt.via = "encrypt_file"
                 THEN encrypt_file(disk, ENCRYPTION_KEY, PlainPath, BlobPath,
                                   clock, fault)
                 ELSE IF crypt.via = "security.encrypt_file"
                 THEN security_encrypt_file(disk, PlainPath, BlobPath, clock,
                                            fault)
                 ELSE Done(TRUE, disk)
             token ==
                 IF crypt.via = "encrypt_text"
                 THEN encrypt_text(ENCRYPTION_KEY, crypt.x)
                 ELSE IF crypt.via = "encrypt_data"
                 THEN encrypt_data(crypt.x)
                 ELSE IF sealed.ok THEN read(sealed.disk, BlobPath) ELSE ""
         IN  /\ crypt.via \in FieldVias => fault = "none"
             /\ disk' = sealed.disk
             /\ crypt' = [crypt EXCEPT
                            !.stage = IF sealed.ok THEN "sealed" ELSE "unsealed",
                            !.token = token]
    /\ UNCHANGED <<ops, clock>>
    /\ UNCHANGED <<pipeline, others>>

\* The token or the blob is tampered with.
Tamper ==
    /\ crypt.stage = "sealed"
    /\ crypt.token # ""
    /\ \E t \in Tampered(crypt.via, crypt.x, crypt.token) :
         /\ crypt' = [crypt EXCEPT !.stage = "tampered", !.token = t.token,
                                   !.tampering = t.kind]
         /\ disk' = IF crypt.via \in FileVias
                    THEN write(disk, BlobPath, t.token, clock)
                    ELSE disk
    /\ UNCHANGED <<ops, clock>>
    /\ UNCHANGED <<pipeline, others>>

\* What a file function's result is as the result of a call.
Flag(done) == [exc |-> "", value |-> IF done.ok THEN "True" ELSE "False"]

\* The token is decrypted by the function that belongs to the one that
\* made it: a field to a value, a blob into the scratch root.
Decrypt ==
    /\ crypt.stage \in {"sealed", "tampered"}
    /\ \E fault \in WriteFaults :
         LET opened ==
                 IF crypt.via = "encrypt_file"
                 THEN decrypt_file(disk, ENCRYPTION_KEY, BlobPath, OpenedPath,
                                   clock, fault)
                 ELSE IF crypt.via = "security.encrypt_file"
                 THEN security_decrypt_file(disk, BlobPath, OpenedPath, clock,
                                            fault)
                 ELSE Done(TRUE, disk)
             out ==
                 IF crypt.via = "encrypt_text"
                 THEN decrypt_text(ENCRYPTION_KEY, crypt.token)
                 ELSE IF crypt.via = "encrypt_data"
                 THEN decrypt_data(crypt.token)
                 ELSE Flag(opened)
         IN  /\ crypt.via \in FieldVias => fault = "none"
             /\ disk' = opened.disk
             /\ crypt' = [crypt EXCEPT !.stage = "opened", !.out = out,
                                       !.fault = fault]
    /\ UNCHANGED <<ops, clock>>
    /\ UNCHANGED <<pipeline, others>>

CipherNext == Encrypt \/ Tamper \/ Decrypt

CipherSpec == CipherInit /\ [][CipherNext]_vars

----------------------------------------------------------------------------
(* Key loading: one configured key, the two cipher sites, one value across *)

Sites == {"security", "EncryptionService"}

Other(site) == IF site = "security" THEN "EncryptionService" ELSE "security"

\* The cipher a site holds.
CipherAt(site) ==
    IF site = "security" THEN keyring.cipher_suite ELSE keyring.cipher

KeyInit ==
    /\ reports = <<>>
    /\ entity_rows = {}
    /\ req = [r \in ReqIds |-> NoRequest]
    /\ unit = [r \in ReqIds |-> IdleUnit]
    /\ task = [d \in DocIds |-> NoTask]
    /\ deleted = {}
    /\ staging = {}
    /\ disk = {}
    /\ ops = <<>>
    /\ clock = 0
    /\ crypt = NoCrypt
    /\ audit = <<>>
    /\ refresh_tokens = <<>>
    /\ issued = {}
    /\ sessions = <<>>
    /\ analytics = <<>>
    /\ gate = <<>>
    /\ \E key \in ConfiguredKeys, site \in Sites, x \in Plaintexts \ {""} :
         keyring = [NoKeys EXCEPT !.stage = "configured", !.configured = key,
                                  !.from = site, !.x = x]

\* The module security is imported: line 21 builds cipher_suite, or raises.
LoadSecurity ==
    /\ keyring.stage = "configured"
    /\ keyring.cipher_suite = Unloaded
    /\ keyring' = [keyring EXCEPT
                      !.cipher_suite = cipher_suite(keyring.configured)]
    /\ UNCHANGED <<pipeline, disk, ops, clock, crypt, audit>>
    /\ UNCHANGED <<refresh_tokens, issued, sessions, analytics, gate>>

\* get_encryption_service() constructs the EncryptionService, or raises.
LoadEncryptionService ==
    /\ keyring.stage = "configured"
    /\ keyring.cipher = Unloaded
    /\ keyring' = [keyring EXCEPT
                      !.cipher = EncryptionService(keyring.configured)]
    /\ UNCHANGED <<pipeline, disk, ops, clock, crypt, audit>>
    /\ UNCHANGED <<refresh_tokens, issued, sessions, analytics, gate>>

\* The value is encrypted by the cipher of the site it comes from
\* (cipher.encrypt: security.py 98 and 122, encryption_service.py 47 and
\* 87).
EncryptAt ==
    /\ keyring.stage = "configured"
    /\ CipherAt(keyring.from).exc = ""
    /\ keyring' = [keyring EXCEPT
                      !.stage = "encrypted",
                      !.token = Fernet_encrypt(CipherAt(keyring.from).value,
                                               keyring.x)]
    /\ UNCHANGED <<pipeline, disk, ops, clock, crypt, audit>>
    /\ UNCHANGED <<refresh_tokens, issued, sessions, analytics, gate>>

\* The token is decrypted by the cipher of the other site (cipher.decrypt:
\* security.py 110 and 139, encryption_service.py 67 and 112).
DecryptAtOther ==
    /\ keyring.stage = "encrypted"
    /\ CipherAt(Other(keyring.from)).exc = ""
    /\ keyring' = [keyring EXCEPT
                      !.stage = "decrypted",
                      !.out = Fernet_decrypt(
                                  CipherAt(Other(keyring.from)).value,
                                  keyring.token)]
    /\ UNCHANGED <<pipeline, disk, ops, clock, crypt, audit>>
    /\ UNCHANGED <<refresh_tokens, issued, sessions, analytics, gate>>

KeyNext == LoadSecurity \/ LoadEncryptionService \/ EncryptAt \/ DecryptAtOther

KeySpec == KeyInit /\ [][KeyNext]_vars

----------------------------------------------------------------------------
(* Authentication: the tokens of security.py and the routes of auth.py *)

\* The users of table users; all of them are active.  The requests to the
\* auth routes.
Users == 1..MaxUsers
AuthReqs == 1..MaxAuthRequests

\* A JWT by its claims (type, user_id, jti; an access token has no jti) and
\* by whether its signature verifies under SECRET_KEY.  Every token is
\* presented before its exp claim and its expires_at passed.
Jwt(type, user_id, jti) ==
    [type |-> type, user_id |-> user_id, jti |-> jti, signed |-> TRUE]

\* create_access_token (lines 36-52) and create_refresh_token (lines 55-68)
\* for data = {user_id, email}; jti is the fresh value of
\* secrets.token_urlsafe.
create_access_token(user_id) == Jwt("access", user_id, 0)
create_refresh_token(user_id, jti) == Jwt("refresh", user_id, jti)

\* Tokens that were not made with SECRET_KEY.
Forged ==
    {[type |-> type, user_id |-> 1, jti |-> jti, signed |-> FALSE] :
        type \in {"access", "refresh"}, jti \in {1}}

\* None, as the payload of a token.
NoPayload == [type |-> "none", user_id |-> 0, jti |-> 0, signed |-> FALSE]

\* decode_token (lines 71-77): the payload, or None when jwt.decode raises.
decode_token(token) == IF token.signed THEN token ELSE NoPayload

\* Mutant of verify_token: the type is not compared.
verify_token_any_type(token, token_type) == decode_token(token)

\* verify_token (lines 80-90)
verify_token(token, token_type) ==
    LET payload == decode_token(token)
    IN  IF payload = NoPayload THEN NoPayload
        ELSE IF payload.type # token_type THEN NoPayload
        ELSE payload

\* A row of refresh_tokens (user.py lines 67-76).
RefreshToken(jti, user_id) ==
    [token |-> jti, user_id |-> user_id, revoked |-> FALSE]

\* The query of lines 202-205: the rows with the jti that are not revoked.
Unrevoked(jti) ==
    {i \in DOMAIN refresh_tokens :
        refresh_tokens[i].token = jti /\ ~refresh_tokens[i].revoked}

\* Mutant of revoke_all: the newest token of the user is spared.
revoke_all_but_newest(table, user_id) ==
    [i \in DOMAIN table |->
        IF table[i].user_id = user_id
           /\ \E j \in DOMAIN table : j > i /\ table[j].user_id = user_id
        THEN [table[i] EXCEPT !.revoked = TRUE]
        ELSE table[i]]

\* The UPDATE of lines 267-270 and 312-315: every row of the user that is
\* not revoked becomes revoked.
revoke_all(table, user_id) ==
    [i \in DOMAIN table |->
        IF table[i].user_id = user_id /\ ~table[i].revoked
        THEN [table[i] EXCEPT !.revoked = TRUE]
        ELSE table[i]]

\* A request to an auth route: how far its handler got, the token it
\* carries, the user and the token row the handler found, the refresh
\* tokens issued to that user when the handler began, the HTTP status of
\* the response and the jti of the refresh token in it.
NoSession ==
    [pc |-> "idle", route |-> "none", token |-> NoPayload, user_id |-> 0,
     record |-> 0, before |-> {}, status |-> 0, granted |-> 0]

Answered(session, status) == [session EXCEPT !.pc = "done", !.status = status]

\* The requests are numbered in the order in which their handlers begin.
Arrives(q) ==
    /\ sessions[q].pc = "idle"
    /\ \A o \in AuthReqs : o < q => sessions[o].pc # "idle"

\* What a client may send as a token: one it was given, or a forged one.
Presentable == issued \cup Forged

\* The refresh tokens issued to user u so far, by their jti.
IssuedTo(u) ==
    {t.jti : t \in {x \in issued : x.type = "refresh" /\ x.user_id = u}}

\* The users are numbered in the order of their first login.
InOrder(u) == \A v \in Users : v < u => IssuedTo(v) # {}

\* login (lines 126-181): with the right password the tokens are created,
\* the row of the refresh token is committed and both are returned.
Login(q) ==
    /\ Arrives(q)
    /\ \E u \in {v \in Users : InOrder(v)}, password_ok \in BOOLEAN :
         LET jti == Len(refresh_tokens) + 1
             s == [NoSession EXCEPT !.route = "login", !.user_id = u]
         IN  IF ~password_ok
             THEN /\ sessions' = [sessions EXCEPT ![q] = Answered(s, 401)]
                  /\ UNCHANGED <<refresh_tokens, issued>>
             ELSE /\ refresh_tokens' =
                        Append(refresh_tokens, RefreshToken(jti, u))
                  /\ issued' = issued \cup {create_access_token(u),
                                             create_refresh_token(u, jti)}
                  /\ sessions' = [sessions EXCEPT ![q] =
                                    [Answered(s, 200) EXCEPT !.granted = jti]]
    /\ UNCHANGED <<pipeline, disk, ops, clock, crypt, audit, keyring>>
    /\ UNCHANGED <<analytics, gate>>

\* refresh_token, lines 192-227: the token is verified as a refresh token
\* and its row is looked up among the rows not revoked.
RefreshCheck(q) ==
    /\ Arrives(q)
    /\ \E t \in Presentable :
         LET payload == verify_token(t, "refresh")
             s == [NoSession EXCEPT !.route = "refresh", !.token = t]
         IN  sessions' = [sessions EXCEPT ![q] =
               IF payload = NoPayload THEN Answered(s, 401)
               ELSE IF Unrevoked(payload.jti) = {} THEN Answered(s, 401)
               ELSE [s EXCEPT !.pc = "checked",
                              !.user_id = payload.user_id,
                              !.record =
                                 CHOOSE i \in Unrevoked(payload.jti) : TRUE]]
    /\ UNCHANGED <<refresh_tokens, issued>>
    /\ UNCHANGED <<pipeline, disk, ops, clock, crypt, audit, keyring>>
    /\ UNCHANGED <<analytics, gate>>

\* refresh_token, lines 229-256: new tokens are created, the row found is
\* revoked, the row of the new refresh token is added, both are committed.
RefreshCommit(q) ==
    /\ sessions[q].pc = "checked"
    /\ LET jti == Len(refresh_tokens) + 1
           u == sessions[q].user_id
       IN  /\ refresh_tokens' =
                 Append([refresh_tokens EXCEPT
                           ![sessions[q].record].revoked = TRUE],
                        RefreshToken(jti, u))
           /\ issued' = issued \cup {create_access_token(u),
                                      create_refresh_token(u, jti)}
           /\ sessions' = [sessions EXCEPT ![q] =
                             [Answered(@, 200) EXCEPT !.granted = jti]]
    /\ UNCHANGED <<pipeline, disk, ops, clock, crypt, audit, keyring>>
    /\ UNCHANGED <<analytics, gate>>

\* get_current_user (lines 30-56) as the dependency of a route: the token
\* is verified as an access token and its user loaded.
Authenticate(q) ==
    /\ Arrives(q)
    /\ \E t \in Presentable, route \in {"me", "logout", "change_password"} :
         LET payload == verify_token(t, "access")
             s == [NoSession EXCEPT !.route = route, !.token = t]
         IN  sessions' = [sessions EXCEPT ![q] =
               IF payload = NoPayload THEN Answered(s, 401)
               ELSE IF route = "me"
               THEN Answered([s EXCEPT !.user_id = payload.user_id], 200)
               ELSE [s EXCEPT !.pc = "authenticated",
                              !.user_id = payload.user_id,
                              !.before = IssuedTo(payload.user_id)]]
    /\ UNCHANGED <<refresh_tokens, issued>>
    /\ UNCHANGED <<pipeline, disk, ops, clock, crypt, audit, keyring>>
    /\ UNCHANGED <<analytics, gate>>

\* logout (lines 267-274), and change_password (lines 293-319) with the
\* right current password and an acceptable new one: the user's rows are
\* revoked and the change committed.  With a wrong or weak password
\* change_password answers 400 and changes nothing.
Revoke(q) ==
    /\ sessions[q].pc = "authenticated"
    /\ \E passwords_ok \in BOOLEAN :
         IF sessions[q].route = "change_password" /\ ~passwords_ok
         THEN /\ sessions' = [sessions EXCEPT ![q] = Answered(@, 400)]
              /\ UNCHANGED refresh_tokens
         ELSE /\ refresh_tokens' =
                    revoke_all(refresh_tokens, sessions[q].user_id)
              /\ sessions' = [sessions EXCEPT ![q] = Answered(@, 200)]
    /\ UNCHANGED issued
    /\ UNCHANGED <<pipeline, disk, ops, clock, crypt, audit, keyring>>
    /\ UNCHANGED <<analytics, gate>>

AuthInit ==
    /\ reports = <<>>
    /\ entity_rows = {}
    /\ req = [r \in ReqIds |-> NoRequest]
    /\ unit = [r \in ReqIds |-> IdleUnit]
    /\ task = [d \in DocIds |-> NoTask]
    /\ deleted = {}
    /\ staging = {}
    /\ disk = {}
    /\ ops = <<>>
    /\ clock = 0
    /\ crypt = NoCrypt
    /\ audit = <<>>
    /\ keyring = NoKeys
    /\ refresh_tokens = <<>>
    /\ issued = {}
    /\ sessions = [q \in AuthReqs |-> NoSession]
    /\ analytics = <<>>
    /\ gate = <<>>

AuthNext ==
    \E q \in AuthReqs :
       \/ Login(q)
       \/ RefreshCheck(q)
       \/ RefreshCommit(q)
       \/ Authenticate(q)
       \/ Revoke(q)

AuthSpec == AuthInit /\ [][AuthNext]_vars

----------------------------------------------------------------------------
(* Analytics: get_dashboard_stats for one caller over two stores *)

\* The caller of the dashboard is user 1; user 2 is another uploader.
\* Each of them has uploaded at most MaxOwned Documents.
OwnIds == 1..MaxOwned
OtherIds == (MaxOwned + 1)..(2 * MaxOwned)

\* The callers: by role and by the flag is_superuser.
Viewers ==
    [id : {1}, role : {"admin", "doctor", "nurse"}, is_superuser : BOOLEAN]

\* User.is_admin and User.can_view_analytics (user.py lines 54-64)
is_admin(user) == user.role = "admin" \/ user.is_superuser

can_view_analytics(user) == user.role \in {"admin", "doctor"}

\* The row of medical_reports with identifier id, as far as the dashboard
\* reads it; what it holds varies with the identifier.
ReportRow(id) ==
    [id |-> id,
     uploaded_by |-> IF id \in OwnIds THEN 1 ELSE 2,
     status |-> IF id % 2 = 1 THEN PROCESSING ELSE COMPLETED,
     patient_id |-> IF id % 2 = 1 THEN Some(encrypt_data("P-17")) ELSE Null,
     report_type |-> IF id % 2 = 1 THEN "lab_report" ELSE "other",
     created_at |-> id]

\* The rows of extracted_entities of Document id.
EntityRowsOf(id) ==
    {[report_id |-> id, entity_type |-> "disease",
      entity_text |-> IF id % 2 = 1 THEN "flu" ELSE "asthma"],
     [report_id |-> id, entity_type |-> "medication",
      entity_text |-> "aspirin"]}

\* What a store may hold of the Documents ids: of each nothing, its row,
\* or its row and its Entities.
Holdings(ids) == [ids -> {"none", "row", "row and entities"}]

\* The store that holds the given Documents.
StoreOf(held) ==
    [reports |-> {ReportRow(id) : id \in {i \in DOMAIN held : held[i] # "none"}},
     entities |-> UNION {EntityRowsOf(id) :
                           id \in {i \in DOMAIN held :
                                      held[i] = "row and entities"}}]

\* Two stores that agree on the caller's Documents and Entities.
Merged(own, other) ==
    [reports |-> StoreOf(own).reports \cup StoreOf(other).reports,
     entities |-> StoreOf(own).entities \cup StoreOf(other).entities]

\* Mutant of Query: the filter on the uploader is left out.
QueryUnfiltered(store, user) == store.reports

\* Lines 39-41: the base query.
Query(store, user) ==
    IF is_admin(user) THEN store.reports
    ELSE {r \in store.reports : r.uploaded_by = user.id}

\* Lines 66-76: the disease entities, for a caller who is not an admin
\* joined with the caller's Documents.
EntityQuery(store, user) ==
    LET diseases == {e \in store.entities : e.entity_type = "disease"}
    IN  IF is_admin(user) THEN diseases
        ELSE {e \in diseases :
                \E r \in store.reports :
                   r.id = e.report_id /\ r.uploaded_by = user.id}

\* group_by(column) with count: the number of rows per value.
CountBy(rows, column) ==
    [v \in {r[column] : r \in rows} |->
        Cardinality({r \in rows : r[column] = v})]

\* Line 63: order_by(desc(created_at)).limit(5)
Recent(rows) ==
    {r \in rows :
        Cardinality({o \in rows : o.created_at > r.created_at})
            < RECENT_LIMIT}

\* The first day of the month, as a time of creation.
first_day_of_month == MaxOwned

\* get_dashboard_stats (lines 24-104).  The model's stores hold fewer than
\* ten diagnoses, which limit(10) of line 80 leaves as they are.
get_dashboard_stats(store, user) ==
    IF ~can_view_analytics(user) THEN [status |-> 403, stats |-> <<>>]
    ELSE LET query == Query(store, user)
         IN  [status |-> 200,
              stats |-> <<
                [total_reports |-> Cardinality(query),
                 reports_this_month |->
                    Cardinality({r \in query :
                                   r.created_at >= first_day_of_month}),
                 processing_reports |->
                    Cardinality({r \in query : r.status = PROCESSING}),
                 total_patients |->
                    Cardinality({r.patient_id :
                                   r \in {x \in query : x.patient_id # Null}}),
                 recent_reports |-> Recent(query),
                 top_diagnoses |->
                    CountBy(EntityQuery(store, user), "entity_text"),
                 report_types_distribution |->
                    CountBy(query, "report_type")]>>]

NotAsked == [status |-> 0, stats |-> <<>>]

AnalyticsInit ==
    /\ reports = <<>>
    /\ entity_rows = {}
    /\ req = [r \in ReqIds |-> NoRequest]
    /\ unit = [r \in ReqIds |-> IdleUnit]
    /\ task = [d \in DocIds |-> NoTask]
    /\ deleted = {}
    /\ staging = {}
    /\ disk = {}
    /\ ops = <<>>
    /\ clock = 0
    /\ crypt = NoCrypt
    /\ audit = <<>>
    /\ keyring = NoKeys
    /\ refresh_tokens = <<>>
    /\ issued = {}
    /\ sessions = <<>>
    /\ gate = <<>>
    /\ \E user \in Viewers, own \in Holdings(OwnIds),
          other1 \in Holdings(OtherIds), other2 \in Holdings(OtherIds) :
         analytics = [user |-> user,
                      stores |-> <<Merged(own, other1), Merged(own, other2)>>,
                      results |-> <<NotAsked, NotAsked>>]

\* The caller asks for the dashboard of store k.
Dashboard(k) ==
    /\ analytics.results[k] = NotAsked
    /\ analytics' = [analytics EXCEPT
                       !.results[k] = get_dashboard_stats(analytics.stores[k],
                                                          analytics.user)]
    /\ UNCHANGED <<pipeline, disk, ops, clock, crypt, audit, keyring>>
    /\ UNCHANGED <<refresh_tokens, issued, sessions, gate>>

AnalyticsNext == \E k \in {1, 2} : Dashboard(k)

AnalyticsSpec == AnalyticsInit /\ [][AnalyticsNext]_vars

----------------------------------------------------------------------------
(* The file-kind gate of the gateway and validators.validate_file_type *)

\* str.lower() of one character
lower_char(c) ==
    CASE c = "A" -> "a" [] c = "B" -> "b" [] c = "C" -> "c" [] c = "D" -> "d"
      [] c = "E" -> "e" [] c = "F" -> "f" [] c = "G" -> "g" [] c = "H" -> "h"
      [] c = "I" -> "i" [] c = "J" -> "j" [] c = "K" -> "k" [] c = "L" -> "l"
      [] c = "M" -> "m" [] c = "N" -> "n" [] c = "O" -> "o" [] c = "P" -> "p"
      [] c = "Q" -> "q" [] c = "R" -> "r" [] c = "S" -> "s" [] c = "T" -> "t"
      [] c = "U" -> "u" [] c = "V" -> "v" [] c = "W" -> "w" [] c = "X" -> "x"
      [] c = "Y" -> "y" [] c = "Z" -> "z" [] OTHER -> c

\* str.lower()
RECURSIVE lower(_)
lower(str) ==
    IF str = "" THEN ""
    ELSE lower_char(SubSeq(str, 1, 1)) \o lower(SubSeq(str, 2, Len(str)))

\* The positions of the separator sep in str.
PositionsOf(sep, str) == {i \in 1..Len(str) : SubSeq(str, i, i) = sep}

\* str.split(sep): the list of the pieces between the separators.
RECURSIVE split(_, _)
split(str, sep) ==
    LET at == PositionsOf(sep, str)
    IN  IF at = {} THEN <<str>>
        ELSE LET first == CHOOSE i \in at : \A j \in at : i <= j
             IN  <<SubSeq(str, 1, first - 1)>>
                    \o split(SubSeq(str, first + 1, Len(str)), sep)

\* str.strip(): blanks at both ends are dropped.
RECURSIVE strip(_)
strip(str) ==
    IF str = "" THEN ""
    ELSE IF SubSeq(str, 1, 1) = " " THEN strip(SubSeq(str, 2, Len(str)))
    ELSE IF SubSeq(str, Len(str), Len(str)) = " "
         THEN strip(SubSeq(str, 1, Len(str) - 1))
    ELSE str

\* list[-1]
Last(list) == list[Len(list)]

\* x in list
In(x, list) == \E i \in 1..Len(list) : list[i] = x

\* Settings.parse_allowed_extensions (config.py lines 76-80): a string is
\* split at the commas and its pieces stripped, a list is left as it is.
parse_allowed_extensions(v) ==
    IF v.isstr THEN [i \in 1..Len(split(v.str, ",")) |->
                       strip(split(v.str, ",")[i])]
    ELSE v.list

\* The values of ALLOWED_EXTENSIONS the settings are given: the default
\* of line 41, strings of the environment, and lists.
AllowedExtensionsGiven ==
    {[isstr |-> FALSE, str |-> "",
      list |-> <<"pdf", "jpg", "jpeg", "png", "tiff">>],
     [isstr |-> TRUE, str |-> "pdf,png", list |-> <<>>],
     [isstr |-> TRUE, str |-> "pdf, jpg , png", list |-> <<>>],
     [isstr |-> TRUE, str |-> "PDF,JPG", list |-> <<>>],
     [isstr |-> TRUE, str |-> "Pdf,png", list |-> <<>>],
     [isstr |-> TRUE, str |-> "", list |-> <<>>],
     [isstr |-> FALSE, str |-> "", list |-> <<>>],
     [isstr |-> FALSE, str |-> "", list |-> <<"PNG">>]}

\* The non-empty filenames of an upload.
UploadNames ==
    {"scan.pdf", "scan.PDF", "scan.Pdf", "scan", "pdf", "scan.", ".png",
     "a.b.png", "scan.pdf.exe", "x.JPG", "x.tiff"}

\* upload_document lines 133-134: the test of the file's kind.
file_kind_admitted(filename, allowed) ==
    LET file_extension == lower(Last(split(filename, ".")))
    IN  In(file_extension, allowed)

\* validate_file_type (validators.py lines 29-46)
validate_file_type(filename, allowed_extensions) ==
    IF filename = "" THEN FALSE
    ELSE LET extension == lower(Last(split(filename, ".")))
         IN  In(extension, [i \in 1..Len(allowed_extensions) |->
                              lower(allowed_extensions[i])])

GateInit ==
    /\ reports = <<>>
    /\ entity_rows = {}
    /\ req = [r \in ReqIds |-> NoRequest]
    /\ unit = [r \in ReqIds |-> IdleUnit]
    /\ task = [d \in DocIds |-> NoTask]
    /\ deleted = {}
    /\ staging = {}
    /\ disk = {}
    /\ ops = <<>>
    /\ clock = 0
    /\ crypt = NoCrypt
    /\ audit = <<>>
    /\ keyring = NoKeys
    /\ refresh_tokens = <<>>
    /\ issued = {}
    /\ sessions = <<>>
    /\ analytics = <<>>
    /\ \E filename \in UploadNames, v \in AllowedExtensionsGiven :
         gate = [filename |-> filename,
                 ALLOWED_EXTENSIONS |-> parse_allowed_extensions(v),
                 admitted |-> "not asked",
                 valid |-> "not asked"]

\* The gateway tests the kind of the uploaded file.
AdmitKind ==
    /\ gate.admitted = "not asked"
    /\ gate' = [gate EXCEPT
                  !.admitted = IF file_kind_admitted(gate.filename,
                                                     gate.ALLOWED_EXTENSIONS)
                               THEN "True" ELSE "False"]
    /\ UNCHANGED <<pipeline, disk, ops, clock, crypt, audit, keyring>>
    /\ UNCHANGED <<refresh_tokens, issued, sessions, analytics>>

\* validate_file_type is called with the same filename and allow-list.
ValidateKind ==
    /\ gate.valid = "not asked"
    /\ gate' = [gate EXCEPT
                  !.valid = IF validate_file_type(gate.filename,
                                                  gate.ALLOWED_EXTENSIONS)
                            THEN "True" ELSE "False"]
    /\ UNCHANGED <<pipeline, disk, ops, clock, crypt, audit, keyring>>
    /\ UNCHANGED <<refresh_tokens, issued, sessions, analytics>>

GateNext == AdmitKind \/ ValidateKind

GateSpec == GateInit /\ [][GateNext]_vars

----------------------------------------------------------------------------
(* Notions the properties are stated in *)

Terminal == {COMPLETED, FAILED}

EntitiesOf(d) == {x \in entity_rows : x.report_id = d}

HasError(metadata) == metadata # Null /\ "error" \in DOMAIN metadata[1]

\* The number of items of an engine output, summed over its kinds.
RECURSIVE SumOver(_, _)
SumOver(entities, kinds) ==
    IF kinds = {} THEN 0
    ELSE LET kind == CHOOSE x \in kinds : TRUE
         IN  entities[kind] + SumOver(entities, kinds \ {kind})

\* The places <<r, i>> at which document d is scheduled.
Scheduled(d) ==
    UNION {{<<r, i>> : i \in {j \in DOMAIN req[r].tasks : req[r].tasks[j] = d}}
             : r \in ReqIds}

\* The requests whose unit of work is at this moment processing document d.
Processing(d) ==
    {r \in ReqIds : unit[r].pc \in {"ocr", "extract"} /\ unit[r].report_id = d}

----------------------------------------------------------------------------
(* Properties *)

C2_ReceiptNamesPendingDocument ==
    \A r \in ReqIds :
        (req[r].state = "handled" /\ req[r].kind = "single") =>
            /\ Len(req[r].results) = 1
            /\ req[r].tasks # <<>> => req[r].results[1].status = "pending"
            /\ req[r].results[1].status = "pending" =>
                 LET id == req[r].results[1].report_id
                 IN  /\ id \in DOMAIN reports
                     /\ reports[id].status = PENDING
                     /\ req[r].tasks = <<id>>
                     /\ task[id].state = "queued"
                     /\ Processing(id) = {}

\* C2 witness: an accepted single upload whose receipt is about to be sent
\* while the unit of an earlier upload is running.
C2_Witness ==
    \E r, q \in ReqIds :
        /\ req[r].state = "handled" /\ req[r].kind = "single"
        /\ req[r].results[1].status = "pending"
        /\ unit[q].pc = "extract"

\* C3: every FAILED Document has zero Entity rows and a non-null
\* metadata.error, whatever the cause of the failure.
C3_FailedHasErrorAndNoEntities ==
    \A d \in DOMAIN reports :
        reports[d].status = FAILED =>
            /\ EntitiesOf(d) = {}
            /\ HasError(reports[d].metadata)

\* C4: recognized text, confidence and processing duration are non-null
\* only on a COMPLETED Document.
C4_ResultFieldsOnlyWhenCompleted ==
    \A d \in DOMAIN reports :
        reports[d].status # COMPLETED =>
            /\ reports[d].ocr_text = Null
            /\ reports[d].confidence_score = Null
            /\ reports[d].processing_time = Null

\* C5: every COMPLETED Document has a confidence and a processing time, and
\* as many Entity rows as the Entity Engine returned items for it, summed
\* over all kinds.
C5_CompletedHasAllEntities ==
    \A d \in DOMAIN reports :
        reports[d].status = COMPLETED =>
            /\ reports[d].confidence_score # Null
            /\ reports[d].processing_time # Null
            /\ reports[d].extracted_entities # Null
            /\ Cardinality(EntitiesOf(d)) =
                  SumOver(reports[d].extracted_entities[1], EntityKinds)

\* C5 witness: a COMPLETED Document for which the engine returned items of
\* two kinds.
C5_Witness ==
    \E d \in DOMAIN reports :
        /\ reports[d].status = COMPLETED
        /\ \A kind \in EntityKinds :
              \E x \in EntitiesOf(d) : x.entity_type = kind

\* C6: when the commit that ends the success path fails, the Document ends
\* FAILED with an error and zero Entity rows; it is left neither COMPLETED
\* nor PROCESSING.
C6_FailedFinalCommitEndsFailed ==
    \A d \in DOMAIN reports :
        (task[d].fault = "final_commit"
            /\ task[d].state \in {"returned", "raised"}) =>
            /\ reports[d].status = FAILED
            /\ HasError(reports[d].metadata)
            /\ EntitiesOf(d) = {}

\* C7: every Entity row belongs to a COMPLETED Document.
C7_EntitiesOnlyOfCompleted ==
    \A x \in entity_rows : reports[x.report_id].status = COMPLETED

\* C8: under fair scheduling, every Document for which a unit was scheduled
\* eventually is COMPLETED or FAILED.
C8_ScheduledEventuallyTerminal ==
    \A d \in DocIds :
        (task[d].state # "none") ~>
            (d \in DOMAIN reports /\ reports[d].status \in Terminal)

\* C9: no exception ever leaves process_document_background.
C9_UnitNeverRaises ==
    \A d \in DocIds : task[d].state # "raised"

----------------------------------------------------------------------------
(* Properties of units of different Documents *)

\* The Document the next step of the unit of work of request r is about, 0
\* if the unit has no step to take.
UnitDocument(r) ==
    IF unit[r].pc \in {"ocr", "extract"} THEN unit[r].report_id
    ELSE IF MayStart(r) THEN req[r].tasks[req[r].cur]
    ELSE 0

\* Document d waits in the BackgroundTasks of a request behind a unit that
\* raised: the framework runs none of the tasks after it.
Prevented(d) ==
    \E r \in ReqIds :
        /\ unit[r].pc = "raised"
        /\ \E i \in DOMAIN req[r].tasks : i > req[r].cur /\ req[r].tasks[i] = d

\* C11: a step of the unit of one Document (a fault included) changes no
\* other Document's stored status, result fields or Entity rows, and does
\* not prevent any other Document's scheduled unit from running; this holds
\* for the units scheduled by one batch call as well.
C11_UnitsDoNotInterfere ==
    [][\A r \in ReqIds :
          (unit'[r] # unit[r] \/ req'[r].cur # req[r].cur) =>
             \A d \in DOMAIN reports :
                d # UnitDocument(r) =>
                   /\ reports'[d] = reports[d]
                   /\ {x \in entity_rows' : x.report_id = d} = EntitiesOf(d)
                   /\ ~Prevented(d)']_vars

----------------------------------------------------------------------------
(* Properties of the ingestion gateway *)

\* The handler of request r has left nothing of the i-th file it was sent:
\* no staged file, no blob, no row, and no unit of work but those of the
\* rows of other files.
Untouched(r, i) ==
    /\ i \notin req[r].effects.staged
    /\ \A b \in req[r].effects.blobs : b.name # i
    /\ \A row \in req[r].effects.rows : row.file_path # i
    /\ \A j \in DOMAIN req[r].tasks :
          \E row \in req[r].effects.rows : row.report_id = req[r].tasks[j]

\* The entry of the response of request r that answers its i-th file; the
\* response of a request rejected as a whole has one entry.
EntryOf(r, i) ==
    IF Len(req[r].results) = Len(req[r].files) THEN req[r].results[i]
    ELSE req[r].results[1]

\* C12: for an upload whose file kind is not in the allow-list, single or
\* as an item of a batch, no Document row is created, no staging file and no
\* blob is written, and no processing unit is scheduled.
C12_DisallowedKindLeavesNothing ==
    \A r \in ReqIds :
        req[r].state = "handled" =>
            \A i \in DOMAIN req[r].files :
                req[r].files[i].ext \notin ALLOWED_EXTENSIONS =>
                    /\ Untouched(r, i)
                    /\ EntryOf(r, i).status = "error"

\* C12 witness: a batch was answered in which a file of a disallowed kind
\* came before an accepted one.
C12_Witness ==
    \E r \in ReqIds :
        /\ req[r].state = "handled" /\ req[r].kind = "batch"
        /\ Len(req[r].results) = 2
        /\ req[r].files[1].ext \notin ALLOWED_EXTENSIONS
        /\ req[r].results[2].status = "pending"

\* C13: upload_document rejects every upload whose stream is longer than
\* MAX_UPLOAD_SIZE, and then nothing is persisted: no staging file, no
\* blob, no Document row, no scheduled unit; a stream of exactly
\* MAX_UPLOAD_SIZE bytes is not rejected for its size, and accepted when
\* nothing else is wrong with the upload.
C13_OversizeRejectedWithoutTrace ==
    \A r \in ReqIds :
        (req[r].state = "handled" /\ req[r].kind = "single") =>
            LET f == req[r].files[1]
                entry == req[r].results[1]
            IN  /\ f.size > MAX_UPLOAD_SIZE =>
                      /\ entry.status = "error"
                      /\ Untouched(r, 1)
                      /\ req[r].tasks = <<>>
                /\ f.size = MAX_UPLOAD_SIZE =>
                      /\ entry.detail # "too_large"
                      /\ (can_upload(req[r].role) /\ Sound(f)) =>
                            entry.status = "pending"

\* C13 witness: upload_document has rejected a stream of MAX_UPLOAD_SIZE + 1
\* bytes of an allowed kind for its size.
C13_Witness ==
    \E r \in ReqIds :
        /\ req[r].state = "handled" /\ req[r].kind = "single"
        /\ req[r].files[1].size = MAX_UPLOAD_SIZE + 1
        /\ req[r].files[1].ext \in ALLOWED_EXTENSIONS
        /\ req[r].results[1].detail = "too_large"

\* C14: no Document row is committed, by single or batch upload, whose
\* storage reference names a blob that was not written completely: when
\* sealing fails for a file, no row is created and no unit is scheduled for
\* it.
C14_RowsReferenceCompleteBlobs ==
    \A r \in ReqIds :
        req[r].state = "handled" =>
            /\ \A row \in req[r].effects.rows :
                  \E b \in req[r].effects.blobs :
                      b.name = row.file_path /\ b.complete
            /\ \A i \in DOMAIN req[r].files :
                  ~req[r].files[i].seal_ok =>
                      /\ \A row \in req[r].effects.rows : row.file_path # i
                      /\ EntryOf(r, i).status = "error"

\* The handler of the batch request r went into its loop over the files.
Looped(r) ==
    /\ req[r].state = "handled" /\ req[r].kind = "batch"
    /\ can_upload(req[r].role)
    /\ Len(req[r].files) <= MAX_BATCH_FILES

\* C15: in a batch upload every file passes through the gates of a single
\* upload: the file gets a "pending" entry and a Document exactly if
\* upload_document accepts it; in particular a file whose stream is longer
\* than MAX_UPLOAD_SIZE gets an error entry and no Document.
C15_BatchAppliesTheGatesOfSingle ==
    \A r \in ReqIds :
        Looped(r) =>
            \A i \in DOMAIN req[r].files :
                LET out == UploadOutcome(req[r].role, req[r].files[i])
                IN  /\ EntryOf(r, i).status = "pending" <=> out = "accepted"
                    /\ (\E row \in req[r].effects.rows : row.file_path = i)
                          <=> out = "accepted"
                    /\ req[r].files[i].size > MAX_UPLOAD_SIZE =>
                          EntryOf(r, i).status = "error"

\* The units of work request r has scheduled for Document id.
TasksFor(r, id) == {j \in DOMAIN req[r].tasks : req[r].tasks[j] = id}

\* C16: a batch upload of n <= 10 files answers with n entries, the i-th for
\* the i-th file; a file of a disallowed kind or one whose handling raises
\* gets an error entry without identifier and does not stop the files after
\* it; every other file gets a "pending" entry with an identifier of its
\* own, a committed PENDING Document and one scheduled unit.
C16_BatchAnswersEveryFile ==
    \A r \in ReqIds :
        Looped(r) =>
            /\ Len(req[r].results) = Len(req[r].files)
            /\ \A i \in DOMAIN req[r].results :
                  LET f == req[r].files[i]
                      entry == req[r].results[i]
                  IN  IF f.ext \notin ALLOWED_EXTENSIONS \/ ~f.db_ok
                      THEN /\ entry.status = "error"
                           /\ entry.report_id = 0
                           /\ \A row \in req[r].effects.rows :
                                 row.file_path # i
                      ELSE /\ entry.status = "pending"
                           /\ Row(entry.report_id, i)
                                 \in req[r].effects.rows
                           /\ entry.report_id \in DOMAIN reports
                           /\ reports[entry.report_id].status = PENDING
                           /\ Cardinality(TasksFor(r, entry.report_id)) = 1
                           /\ task[entry.report_id].state = "queued"
                           /\ \A j \in DOMAIN req[r].results :
                                 j # i =>
                                    req[r].results[j].report_id
                                        # entry.report_id

\* C16 witness: a batch of two files was answered whose first file failed
\* and whose second was accepted while another Document existed already.
C16_Witness ==
    \E r \in ReqIds :
        /\ Looped(r)
        /\ Len(req[r].results) = 2
        /\ req[r].results[1].status = "error"
        /\ req[r].results[2].status = "pending"
        /\ req[r].results[2].report_id = 2

\* C17: a batch call with more than 10 files is rejected as a whole before
\* any file is examined: it creates no Document, writes no file and
\* schedules no unit; a batch of exactly 10 files is accepted, each of its
\* files is answered.
C17_BatchOfMoreThanTenRejected ==
    \A r \in ReqIds :
        (req[r].state = "handled" /\ req[r].kind = "batch") =>
            /\ Len(req[r].files) > MAX_BATCH_FILES =>
                  /\ Len(req[r].results) = 1
                  /\ req[r].results[1].status = "error"
                  /\ req[r].effects = NoEffects
                  /\ req[r].tasks = <<>>
            /\ (Len(req[r].files) = MAX_BATCH_FILES
                    /\ can_upload(req[r].role)) =>
                  /\ Len(req[r].results) = MAX_BATCH_FILES
                  /\ Sound(req[r].files[MAX_BATCH_FILES]) =>
                        req[r].results[MAX_BATCH_FILES].status = "pending"

\* C17 witness: a batch of eleven files, the tenth of them sound, sent by a
\* caller who may upload, was rejected.
C17_Witness ==
    \E r \in ReqIds :
        /\ req[r].state = "handled" /\ req[r].kind = "batch"
        /\ can_upload(req[r].role)
        /\ Len(req[r].files) = MAX_BATCH_FILES + 1
        /\ Sound(req[r].files[MAX_BATCH_FILES])
        /\ req[r].results[1].detail = "too_many_files"

----------------------------------------------------------------------------
(* Properties of the processing orchestrator *)

\* The unit of work of request r takes a step.
UnitStep(r) == unit'[r] # unit[r] \/ req'[r].cur # req[r].cur

\* C18: when the unit of work starts, its query returns and no Document
\* with the identifier exists, the unit returns without raising, and no
\* Document row and no Entity row changes.  (No step of the unit writes or
\* removes a file.)
C18_MissingDocumentIsSkipped ==
    [][\A r \in ReqIds :
          (/\ MayStart(r)
           /\ req[r].tasks[req[r].cur] \in deleted
           /\ UnitStep(r)
           /\ task'[req[r].tasks[req[r].cur]].fault # "lookup") =>
              /\ unit'[r].pc # "raised"
              /\ req'[r].cur = req[r].cur + 1
              /\ UNCHANGED <<reports, entity_rows>>]_vars

\* C18 witness: the unit of a deleted Document has returned, and the unit
\* scheduled after it by the same batch call is running.
C18_Witness ==
    \E r \in ReqIds :
        /\ Len(req[r].tasks) = 2
        /\ req[r].tasks[1] \in deleted
        /\ task[req[r].tasks[1]].state = "returned"
        /\ unit[r].pc = "extract"
        /\ unit[r].report_id = req[r].tasks[2]

\* The error texts the Recognition Engine reports with success=false.
OcrErrors == {res.error : res \in {x \in OcrResults : ~x.success}}

\* C19: when the Recognition Engine returns success=false and the unit has
\* recorded it, the Document is FAILED, its metadata is {error: e} with e
\* the engine's error text, the Entity Engine was not invoked and the
\* Document has no Entity row.
C19_RecognitionFailureIsRecorded ==
    \A d \in DOMAIN reports :
        task[d] = Returned("recognition_failure") =>
            /\ reports[d].status = FAILED
            /\ \E e \in OcrErrors : reports[d].metadata = Some([error |-> e])
            /\ reports[d].extracted_entities = Null
            /\ EntitiesOf(d) = {}

\* C19 witness: recognition has failed for one Document of a batch call and
\* succeeded for the other one, which is COMPLETED with an Entity row.
C19_Witness ==
    \E d, e \in DOMAIN reports :
        /\ task[d] = Returned("recognition_failure")
        /\ reports[e].status = COMPLETED
        /\ EntitiesOf(e) # {}
        /\ \E r \in ReqIds : Scheduled(d) \cup Scheduled(e) \subseteq {r} \X {1, 2}

\* C20: when sealing fails in upload_document, the request fails, no
\* Document row is created, and the staged plaintext file is left in place
\* in the staging root.
C20_FailedSealLeavesStagedFile ==
    \A r \in ReqIds :
        (/\ req[r].state = "handled" /\ req[r].kind = "single"
         /\ req[r].results[1].detail = "encrypt_failed") =>
            /\ req[r].results[1].status = "error"
            /\ req[r].effects.rows = {}
            /\ req[r].tasks = <<>>
            /\ 1 \in req[r].effects.staged

----------------------------------------------------------------------------
(* C21 *)

\* Caller p's save_file passes from staging to sealing in this step.
Sealing(p) == ops[p].pc = "staged" /\ ops'[p].pc = "done"

\* C21: a save_file with encrypt=True whose staged file is in place when
\* sealing starts removes that file if and only if the encryption into the
\* encrypted store succeeded: on success it returns the path of the blob,
\* the blob holds the token of the staged content and the staged file is
\* gone; on failure the call raises and the staged file is still there.
C21_StagedFileRemovedIffSealed ==
    [][\A p \in Procs :
          (/\ Sealing(p)
           /\ ops[p].encrypt
           /\ exists(disk, ops[p].target))
          => LET temp_path == ops[p].target
                 result == ops'[p].result
             IN  IF result.exc = ""
                 THEN /\ result.path = join(ENCRYPTED_DIR, temp_path.name)
                      /\ exists(disk', result.path)
                      /\ read(disk', result.path)
                           = Fernet_encrypt(ENCRYPTION_KEY,
                                            read(disk, temp_path))
                      /\ ~exists(disk', temp_path)
                 ELSE exists(disk', temp_path)]_vars

\* One save_file has raised and its staged file is there; another has
\* returned its blob and its staged file is gone.
C21_Witness ==
    \E p, q \in Procs :
        /\ ops[p].call = "save_file" /\ ops[p].pc = "done" /\ ops[p].encrypt
        /\ ops[p].result.exc # ""
        /\ exists(disk, ops[p].target)
        /\ ops[q].call = "save_file" /\ ops[q].pc = "done" /\ ops[q].encrypt
        /\ ops[q].result.exc = ""
        /\ ops[q].result.path.dir = ENCRYPTED_DIR
        /\ exists(disk, ops[q].result.path)
        /\ ~exists(disk, ops[q].target)

----------------------------------------------------------------------------
(* C22 *)

\* The unit scheduled for Document d has ended, by return or by exception.
Ended(d) == task[d].state \in {"returned", "raised"}

\* C22: once the processing unit of a Document has ended, on whichever
\* path, the staged plaintext of the Document is no longer in the staging
\* root.
C22_NoPlaintextAfterUnit ==
    \A d \in DocIds : Ended(d) => d \notin staging

----------------------------------------------------------------------------
(* C23 *)

\* C23: the storage reference of every committed Document lies under the
\* encrypted-store root, and no file under the encrypted-store root holds
\* plaintext: a blob written to its end holds the token of the staged bytes,
\* a blob whose write was cut short holds a part of that token.
C23_EncryptedStoreHoldsCiphertext ==
    \A r \in ReqIds :
        /\ \A row \in req[r].effects.rows : row.file_dir = ENCRYPTED_DIR
        /\ \A b \in req[r].effects.blobs :
              /\ b.dir = ENCRYPTED_DIR
              /\ b.content # Payload
              /\ IF b.complete
                 THEN Fernet_decrypt(ENCRYPTION_KEY, b.content) = Ok(Payload)
                 ELSE b.content = Torn(Fernet_encrypt(ENCRYPTION_KEY, Payload))

\* A handler has committed a row whose blob is written, and it has left a
\* blob whose write was cut short.
C23_Witness ==
    \E r \in ReqIds :
        /\ \E row \in req[r].effects.rows :
              \E b \in req[r].effects.blobs :
                  b.name = row.file_path /\ b.complete
        /\ \E b \in req[r].effects.blobs : ~b.complete

----------------------------------------------------------------------------
(* C24 *)

PatientColumns == {"patient_id", "patient_name"}

\* C24: in every committed Document, patient_id and patient_name are each
\* NULL or the token encrypt_data makes of the value the caller sent: a
\* value that was sent and is not empty is stored as its token, which
\* differs from the value and decrypts to it; anything else is stored as
\* NULL.
C24_PatientFieldsStoredAsTokens ==
    \A r \in ReqIds :
        \A row \in req[r].effects.rows :
            \A column \in PatientColumns :
                LET sent == req[r].form[column]
                    stored == row[column]
                IN  IF Given(sent)
                    THEN /\ stored = Some(encrypt_data(sent[1]))
                         /\ stored[1] # sent[1]
                         /\ decrypt_data(stored[1]) = Ok(sent[1])
                    ELSE stored = Null

\* A row is committed for an upload that came with a patient id and no
\* patient name: the id is stored as a token, the name as NULL.
C24_Witness ==
    \E r \in ReqIds :
        /\ req[r].form.patient_id = Some("P-17")
        /\ req[r].form.patient_name = Null
        /\ \E row \in req[r].effects.rows :
              /\ row.patient_id = Some(encrypt_data("P-17"))
              /\ row.patient_name = Null

----------------------------------------------------------------------------
(* C25 *)

\* The report date of the form is given and does not parse.
Unparsable(report_date) ==
    /\ Given(report_date)
    /\ fromisoformat(replace_Z(report_date[1])).exc # ""

\* C25: a single upload whose report date does not parse is not rejected:
\* it is answered with the receipt of a PENDING Document, its unit is
\* scheduled once, it has written what the same upload without a date
\* writes, and the row's report_date is NULL.
C25_UnparsableDateIsDropped ==
    \A r \in ReqIds :
        (/\ req[r].state = "handled"
         /\ req[r].kind = "single"
         /\ Unparsable(req[r].form.report_date))
        => LET f == req[r].files[1]
               id == req[r].results[1].report_id
               undated == [req[r].form EXCEPT !.report_date = Null]
           IN  /\ req[r].results = <<Receipt(id)>>
               /\ id \in DOMAIN reports
               /\ reports[id] = NewReport
               /\ req[r].tasks = <<id>>
               /\ req[r].effects
                    = WithForm(SingleEffects(UploadOutcome(req[r].role, f),
                                             f, id), undated)
               /\ \A row \in req[r].effects.rows : row.report_date = Null

\* An upload with a report date that does not parse has been handled.
C25_Witness ==
    \E r \in ReqIds :
        /\ req[r].state = "handled"
        /\ req[r].form.report_date = Some("15/01/2024")
        /\ req[r].results[1].status = "pending"
        /\ \E row \in req[r].effects.rows : row.report_date = Null

----------------------------------------------------------------------------
(* C26 *)

\* Caller p is inside a call that has chosen the path it writes and has
\* not returned.
Writing(p) == ops[p].pc \in {"staged", "opening"}

\* C26: no two calls in progress write to the same path in the staging
\* root or the scratch root.
C26_ConcurrentWritesUseDistinctPaths ==
    \A p, q \in Procs :
        (p # q /\ Writing(p) /\ Writing(q)) => ops[p].target # ops[q].target

----------------------------------------------------------------------------
(* C27 *)

\* Caller p runs cleanup_temp_files in this step.
Sweeping(p) ==
    ops[p].pc = "idle" /\ ops'[p].call = "cleanup_temp_files"

----------------------------------------------------------------------------
(* C28 *)

\* C28: decryption inverts encryption.  A non-empty field value encrypted
\* by encrypt_text / encrypt_data and decrypted by decrypt_text /
\* decrypt_data, the token untouched, comes back as it was; a file
\* encrypted by encrypt_file and, the blob untouched, decrypted by
\* decrypt_file without an I/O fault comes back with its bytes.
C28_DecryptInvertsEncrypt ==
    (/\ crypt.stage = "opened"
     /\ crypt.tampering = "none"
     /\ crypt.fault = "none")
    => IF crypt.via \in FieldVias
       THEN crypt.x # "" => crypt.out = Ok(crypt.x)
       ELSE /\ crypt.out = Flag(Done(TRUE, disk))
            /\ exists(disk, OpenedPath)
            /\ read(disk, OpenedPath) = crypt.x

\* A file has gone through encrypt_file and decrypt_file and its bytes are
\* in the scratch root, while the blob holds something else.
C28_Witness ==
    /\ crypt.stage = "opened"
    /\ crypt.via = "encrypt_file"
    /\ crypt.tampering = "none"
    /\ crypt.x = "P-17"
    /\ exists(disk, OpenedPath)
    /\ read(disk, OpenedPath) = "P-17"
    /\ read(disk, BlobPath) # "P-17"

----------------------------------------------------------------------------
(* C29 *)

\* C29: the field decryption of a token that was tampered with (a byte
\* changed, made under another key, or no token at all) ends in an error
\* and returns no value, for decrypt_text and for decrypt_data.
C29_TamperedFieldTokenIsAnError ==
    (/\ crypt.stage = "opened"
     /\ crypt.via \in FieldVias
     /\ crypt.tampering # "none")
    => crypt.out.exc # ""

----------------------------------------------------------------------------
(* C30 *)

----------------------------------------------------------------------------
(* C31 *)

\* The events of the audit log about Document d with the given action tag.
Events(d, action) ==
    {i \in DOMAIN audit :
        audit[i].resource = "report" /\ audit[i].resource_id = d
                                     /\ audit[i].action = action}

\* C31: each state-changing operation of the pipeline has emitted exactly
\* one audit event: every accepted Document has one event of its upload,
\* every Document that left PENDING one of the start of its processing,
\* every COMPLETED Document one of its completion and every FAILED Document
\* one of its failure.
C31_OneAuditEventPerOperation ==
    \A d \in DOMAIN reports :
       /\ Cardinality(Events(d, "upload_accepted")) = 1
       /\ reports[d].status # PENDING =>
             Cardinality(Events(d, "processing_started")) = 1
       /\ reports[d].status = COMPLETED =>
             Cardinality(Events(d, "processing_completed")) = 1
       /\ reports[d].status = FAILED =>
             Cardinality(Events(d, "processing_failed")) = 1

----------------------------------------------------------------------------
(* C32 *)

\* C32: for every configured key neither site rejects the key, the two
\* sites hold the same cipher, and a value encrypted at one site and
\* decrypted at the other is the original.
C32_SitesBuildTheSameCipher ==
    /\ keyring.cipher_suite # Unloaded => keyring.cipher_suite.exc = ""
    /\ keyring.cipher # Unloaded => keyring.cipher.exc = ""
    /\ keyring.cipher_suite # Unloaded /\ keyring.cipher # Unloaded =>
          keyring.cipher_suite = keyring.cipher
    /\ keyring.stage = "decrypted" => keyring.out = Ok(keyring.x)

----------------------------------------------------------------------------
(* C33 *)

\* The unit of request r passes the staged path to the Recognition Engine.
Reading(r) == unit[r].pc = "ocr" /\ unit'[r] # unit[r]

\* C33: whenever a processing unit reads the staged file of its Document,
\* the file is in the staging root, whatever sweeps of the staging root ran
\* in between.
C33_StagedFileExistsWhenRead ==
    [][\A r \in ReqIds : Reading(r) => unit[r].report_id \in staging]_vars

----------------------------------------------------------------------------
(* C34 *)

\* Caller p checks the file its save_file returned.
Verifying(p) == ops[p].pc = "done" /\ ops'[p].pc = "verified"

\* C34: when the caller of a save_file that returned checks the returned
\* path against the returned digest, and the file at that path is the one
\* save_file left there, verify_file_integrity returns True.
C34_ReturnedDigestVerifies ==
    [][\A p \in Procs :
          (/\ Verifying(p)
           /\ At(disk, ops[p].result.path) = {ops[p].left}) =>
              ops'[p].verified = "True"]_vars

----------------------------------------------------------------------------
(* C35 *)

\* The refresh requests that carried the refresh token with this jti and
\* were answered with new tokens.
Exchanged(jti) ==
    {q \in AuthReqs : /\ sessions[q].route = "refresh"
                      /\ sessions[q].status = 200
                      /\ sessions[q].token.jti = jti}

\* C35: a refresh token is exchanged for new tokens at most once, under
\* every interleaving of the refresh requests that carry it.
C35_RefreshTokenExchangedOnce ==
    \A t \in issued : t.type = "refresh" => Cardinality(Exchanged(t.jti)) <= 1

----------------------------------------------------------------------------
(* C36 *)

\* The logout and change-password calls that have committed.
Committed ==
    {l \in AuthReqs : /\ sessions[l].route \in {"logout", "change_password"}
                      /\ sessions[l].status = 200}

\* Request q begins as a refresh request.
Refreshing(q) == sessions[q].pc = "idle" /\ sessions'[q].route = "refresh"

\* Request l commits its revocation.
Revoking(l) == sessions[l].pc = "authenticated" /\ sessions'[l].status = 200

\* C36: a refresh request that arrives after a logout or change-password
\* call of a user has committed, with a refresh token issued to that user
\* before the call, is rejected; and the commit of the call leaves the rows
\* of every other user as they were.
C36_LogoutRevokesEarlierTokens ==
    [][/\ \A q \in AuthReqs, l \in Committed :
             (/\ Refreshing(q)
              /\ sessions'[q].token \in issued
              /\ sessions'[q].token.type = "refresh"
              /\ sessions'[q].token.user_id = sessions[l].user_id
              /\ sessions'[q].token.jti \in sessions[l].before) =>
                 sessions'[q].status = 401
       /\ \A l \in AuthReqs :
             Revoking(l) =>
                /\ DOMAIN refresh_tokens' = DOMAIN refresh_tokens
                /\ \A i \in DOMAIN refresh_tokens :
                      refresh_tokens[i].user_id # sessions[l].user_id =>
                         refresh_tokens'[i] = refresh_tokens[i]]_vars

\* C36 witness: a logout of a user who held a refresh token has committed,
\* a later refresh request with that token was rejected, and another user
\* holds a token that is not revoked.
C36_Witness ==
    \E l \in Committed, q \in AuthReqs :
       /\ q > l
       /\ sessions[q].route = "refresh"
       /\ sessions[q].token \in issued
       /\ sessions[q].token.type = "refresh"
       /\ sessions[q].token.user_id = sessions[l].user_id
       /\ sessions[q].token.jti \in sessions[l].before
       /\ sessions[q].status = 401
       /\ \E i \in DOMAIN refresh_tokens :
             /\ refresh_tokens[i].user_id # sessions[l].user_id
             /\ ~refresh_tokens[i].revoked

----------------------------------------------------------------------------
(* C39 *)

\* The kind of token the route of a request asks verify_token for.
KindOf(route) == IF route = "refresh" THEN "refresh" ELSE "access"

\* C39: verify_token returns a payload only for a token whose type is the
\* kind asked for; a request that carries a token of the other kind to
\* /auth/refresh or to a route behind get_current_user is answered 401 and
\* finds no user.
C39_TokenKindsNotInterchangeable ==
    /\ \A t \in Presentable, kind \in {"access", "refresh"} :
          verify_token(t, kind) # NoPayload => t.type = kind
    /\ \A q \in AuthReqs :
          (/\ sessions[q].route \in {"refresh", "me", "logout",
                                      "change_password"}
           /\ sessions[q].token.type # KindOf(sessions[q].route)) =>
              /\ sessions[q].status = 401
              /\ sessions[q].user_id = 0

\* C39 witness: an access token was sent to /auth/refresh and a refresh
\* token to a route behind get_current_user, both made by the server, and
\* both requests are answered.
C39_Witness ==
    \E q, o \in AuthReqs :
       /\ sessions[q].route = "refresh"
       /\ sessions[q].token \in issued
       /\ sessions[q].token.type = "access"
       /\ sessions[q].pc = "done"
       /\ sessions[o].route \in {"me", "logout"}
       /\ sessions[o].token \in issued
       /\ sessions[o].token.type = "refresh"
       /\ sessions[o].pc = "done"

----------------------------------------------------------------------------
(* C37 *)

\* The handler of request r runs, for a caller of the given role.
HandlingFor(r, role) ==
    req[r].state = "new" /\ req'[r].state = "handled" /\ req'[r].role = role

\* C37: a request of a VIEWER to upload_document or upload_batch_documents
\* ends with the forbidden error, and its handler writes no staging file
\* and no blob, creates no Document and schedules no unit.
C37_ViewerChangesNothing ==
    [][\A r \in ReqIds :
          HandlingFor(r, "viewer") =>
             /\ req'[r].results = <<ErrorEntry("forbidden")>>
             /\ req'[r].effects = NoEffects
             /\ req'[r].tasks = <<>>
             /\ UNCHANGED <<reports, entity_rows, task, staging>>]_vars

\* C37 witness: after another caller's Document was accepted, the handler
\* has answered a VIEWER who sent a batch of two sound files.
C37_Witness ==
    \E r \in ReqIds :
       /\ req[r].state = "handled"
       /\ req[r].role = "viewer" /\ req[r].kind = "batch"
       /\ Len(req[r].files) = 2
       /\ \A i \in DOMAIN req[r].files : Sound(req[r].files[i])
       /\ reports # <<>>

----------------------------------------------------------------------------
(* C38 *)

\* C38: for a caller who is not an admin, the dashboards of two stores
\* that agree on the caller's own Documents and Entities are the same.
C38_DashboardDependsOnOwnDocuments ==
    (/\ ~is_admin(analytics.user)
     /\ analytics.results[1] # NotAsked
     /\ analytics.results[2] # NotAsked) =>
        analytics.results[1] = analytics.results[2]

\* C38 witness: a doctor who is not a superuser and has Documents and
\* diagnoses was given the dashboard of two stores, of which only one
\* holds a Document and a diagnosis of another user.
C38_Witness ==
    /\ analytics.user.role = "doctor" /\ ~analytics.user.is_superuser
    /\ analytics.results[1].status = 200
    /\ analytics.results[2].status = 200
    /\ analytics.results[1].stats[1].total_reports > 0
    /\ DOMAIN analytics.results[1].stats[1].top_diagnoses # {}
    /\ \E r \in analytics.stores[1].reports : r.uploaded_by = 2
    /\ \E e \in analytics.stores[1].entities :
          e.entity_type = "disease" /\ e.report_id \in OtherIds
    /\ analytics.stores[2].reports = {r \in analytics.stores[1].reports :
                                         r.uploaded_by = 1}

----------------------------------------------------------------------------
(* C40 *)

\* C40: for every non-empty filename and every allow-list the gateway
\* admits the file's kind exactly when validate_file_type returns True.
C40_GateAgreesWithValidator ==
    (gate.admitted # "not asked" /\ gate.valid # "not asked") =>
        gate.admitted = gate.valid

\* Where the allow-list is in lower case the two agree.
AgreeOnLowercaseList ==
    (/\ gate.admitted # "not asked" /\ gate.valid # "not asked"
     /\ \A i \in 1..Len(gate.ALLOWED_EXTENSIONS) :
           lower(gate.ALLOWED_EXTENSIONS[i]) = gate.ALLOWED_EXTENSIONS[i]) =>
        gate.admitted = gate.valid

====
